---- MODULE Spec2Model ----
(***************************************************************************)
(* A model of the formula engine (monaam/formula-engine):                  *)
(*   - DependencyGraph        (dependency-graph.ts, src/unnamed/part_000)  *)
(*   - DependencyExtractor    (dependency-extractor.ts, same file)         *)
(*   - Evaluator              (src/src/evaluator.ts)                       *)
(*   - FormulaEngine          (formula-engine.ts, src/unnamed/part_002)    *)
(*                                                                         *)
(*   - Lexer                  (src/src/lexer.ts)                           *)
(*   - Parser                 (parser.ts, kept in                          *)
(*                             src/src/dependency-graph.test.ts)           *)
(*                                                                         *)
(* Eight specifications share the variables:                               *)
(*   SpecGraph      a client drives one DependencyGraph through addNode,   *)
(*                  addEdge and topologicalSort;                           *)
(*   Spec           one FormulaEngine.evaluateAll call, one formula per    *)
(*                  step;                                                  *)
(*   SpecEngine     a client calls parse, extractDependencies, evaluate    *)
(*                  and clearCache on one FormulaEngine;                   *)
(*   SpecFunctions  a client registers functions and evaluates calls;      *)
(*   SpecParse      a text is typed and given to the Lexer and the Parser; *)
(*   SpecEvaluate   a client evaluates expressions on one FormulaEngine;   *)
(*   SpecExtract    a DependencyExtractor is given an expression text;     *)
(*   SpecValidate   one FormulaEngine.validate call.                       *)
(***************************************************************************)
EXTENDS Integers, Sequences, FiniteSets, TLC

VARIABLES
    nodes,            \* DependencyGraph.nodes  : Set<string>, in insertion order
    edges,            \* DependencyGraph.edges  : Map<string, Set<string>>
    sortResult,       \* what the last topologicalSort call returned or threw
    formulas,         \* evaluateAll argument: FormulaDefinition[]
    config,           \* FormulaEngine.config
    context,          \* the caller's context.variables object
    working,          \* workingContext.variables of the running evaluateAll
    aliased,          \* TRUE when workingContext.variables IS the caller's object
    results,          \* Map<string, EvaluationResult>
    errors,           \* Error[] collected by evaluateAll
    evaluationOrder,  \* the order evaluateAll iterates over
    idx,              \* position of the for-loop in evaluationOrder
    evaluated,        \* ids in the order evaluator.evaluate was called on them
    pc,               \* "start" | "loop" | "returned" | "thrown"
    returned,         \* the EvaluationResultSet handed back, or the raised error
    astCache,         \* FormulaEngine.astCache : Map<string, ASTNode>, insertion order
    dependencyCache,  \* FormulaEngine.dependencyCache : Map<string, Set<string>>
    cacheHits,        \* FormulaEngine.cacheHits
    cacheMisses,      \* FormulaEngine.cacheMisses
    functions,        \* the function library shared by the engine and its Evaluator
    lastCall,         \* the last call made on the engine and how it ended
    calls,            \* number of calls made on the engine
    lexerInput,       \* Lexer.input: the text handed to a Parser, as characters
    outcome           \* what the Lexer or the Parser made of lexerInput

vars == <<nodes, edges, sortResult, formulas, config, context, working, aliased,
          results, errors, evaluationOrder, idx, evaluated, pc, returned,
          astCache, dependencyCache, cacheHits, cacheMisses, functions, lastCall,
          calls, lexerInput, outcome>>

graphVars == <<nodes, edges, sortResult>>
batchVars == <<formulas, config, context, working, aliased, results, errors,
               evaluationOrder, idx, evaluated, pc, returned>>
engineVars == <<astCache, dependencyCache, cacheHits, cacheMisses, functions, lastCall,
                calls>>
lexerVars == <<lexerInput, outcome>>

----------------------------------------------------------------------------
(* Bounds of the model.                                                    *)

MaxEdges == 4        \* addEdge calls explored on one graph
MaxFormulas == 3     \* length of the formula list given to evaluateAll

Ids == {"a", "b", "c"}   \* formula ids / graph node names

----------------------------------------------------------------------------
(* Helpers for insertion-ordered JS Set / Map.                             *)

Range(s) == {s[i] : i \in 1..Len(s)}

\* Set.prototype.add: appends unless present, keeps insertion order.
SetAdd(s, x) == IF x \in Range(s) THEN s ELSE Append(s, x)

\* Array.prototype.indexOf (1-based here); only used on members.
IndexOf(s, x) == CHOOSE i \in 1..Len(s) : s[i] = x /\ \A j \in 1..(i-1) : s[j] # x

\* Map.prototype.set / obj[k] = v
MapSet(m, k, v) == [x \in DOMAIN m \cup {k} |-> IF x = k THEN v ELSE m[x]]

----------------------------------------------------------------------------
(* DependencyGraph                                                         *)

EmptyGraph == [nodes |-> <<>>, edges |-> <<>>]

addNode(g, id) ==
    [nodes |-> SetAdd(g.nodes, id),
     edges |-> IF id \in DOMAIN g.edges THEN g.edges ELSE g.edges @@ (id :> <<>>)]

addEdge(g, source, target) ==
    LET g2 == addNode(addNode(g, source), target)
    IN  [g2 EXCEPT !.edges[source] = SetAdd(@, target)]

\* dependents: for every node, the nodes that list it as a dependency, in the
\* order the edges map is iterated (its key insertion order = nodes order).
dependentsMap(g) ==
    [d \in Range(g.nodes) |->
        SelectSeq(g.nodes, LAMBDA n : d \in Range(g.edges[n]))]

\* a slip the source's own comments discuss: counting dependents, not dependencies
inDegreeMap_CountsDependents(g) ==
    [n \in Range(g.nodes) |->
        Cardinality({d \in Range(g.nodes) : n \in Range(g.edges[d])})]

\* inDegree after the third loop: number of dependencies that are nodes.
inDegreeMap(g) ==
    [n \in Range(g.nodes) |->
        Cardinality({d \in Range(g.edges[n]) : d \in Range(g.nodes)})]

\* the inner for-loop of Kahn's algorithm over the dependents of one node
RECURSIVE relaxDependents(_, _, _, _, _)
relaxDependents(deps, k, inDegree, queue, visited) ==
    IF k > Len(deps) THEN [inDegree |-> inDegree, queue |-> queue]
    ELSE LET dependent == deps[k]
             newDegree == inDegree[dependent] - 1
             inDegree2 == [inDegree EXCEPT ![dependent] = newDegree]
             queue2 == IF newDegree = 0 /\ dependent \notin visited
                       THEN Append(queue, dependent) ELSE queue
         IN  relaxDependents(deps, k + 1, inDegree2, queue2, visited)

\* the while (queue.length > 0) loop
RECURSIVE kahnLoop(_, _, _, _, _)
kahnLoop(dependents, queue, inDegree, visited, result) ==
    IF queue = <<>> THEN [result |-> result, visited |-> visited]
    ELSE LET node == Head(queue)
         IN  IF node \in visited
             THEN kahnLoop(dependents, Tail(queue), inDegree, visited, result)
             ELSE LET visited2 == visited \cup {node}
                      r == relaxDependents(dependents[node], 1, inDegree,
                                           Tail(queue), visited2)
                  IN  kahnLoop(dependents, r.queue, r.inDegree, visited2,
                               Append(result, node))

\* findCycle: DFS with a recursion stack; recursionStack is kept in step with
\* path (add with push, delete with pop), so it is the set of path's elements.
RECURSIVE dfs(_, _, _, _)
RECURSIVE dfsDeps(_, _, _, _, _)
dfs(g, node, visited, path) ==
    dfsDeps(g, g.edges[node], 1, visited \cup {node}, Append(path, node))

dfsDeps(g, deps, k, visited, path) ==
    IF k > Len(deps) THEN [found |-> FALSE, cycle |-> <<>>, visited |-> visited]
    ELSE LET dep == deps[k]
         IN  IF dep \notin Range(g.nodes)
             THEN dfsDeps(g, deps, k + 1, visited, path)
             ELSE IF dep \notin visited
             THEN LET r == dfs(g, dep, visited, path)
                  IN  IF r.found THEN r
                      ELSE dfsDeps(g, deps, k + 1, r.visited, path)
             ELSE IF dep \in Range(path)
             THEN [found |-> TRUE,
                   cycle |-> Append(SubSeq(path, IndexOf(path, dep), Len(path)), dep),
                   visited |-> visited]
             ELSE dfsDeps(g, deps, k + 1, visited, path)

RECURSIVE findCycleFrom(_, _, _)
findCycleFrom(g, k, visited) ==
    IF k > Len(g.nodes) THEN <<>>
    ELSE LET node == g.nodes[k]
         IN  IF node \in visited THEN findCycleFrom(g, k + 1, visited)
             ELSE LET r == dfs(g, node, visited, <<>>)
                  IN  IF r.found THEN r.cycle
                      ELSE findCycleFrom(g, k + 1, r.visited)

\* the cycle without `cycle.push(dep)`, i.e. left open
findCycle_NotClosed(g) ==
    LET c == findCycleFrom(g, 1, {})
    IN  IF c = <<>> THEN c ELSE SubSeq(c, 1, Len(c) - 1)

findCycle(g) == findCycleFrom(g, 1, {})

\* Kahn's loop without the `result.length !== this.nodes.size` check
topologicalSort_NoCycleCheck(g) ==
    LET inDegree == inDegreeMap(g)
        queue == SelectSeq(g.nodes, LAMBDA n : inDegree[n] = 0)
        k == kahnLoop(dependentsMap(g), queue, inDegree, {}, <<>>)
    IN  [ok |-> TRUE, error |-> "none", order |-> k.result,
         cycle |-> <<>>, involved |-> <<>>]

\* topologicalSort: the order, or the CircularDependencyError it throws
topologicalSort(g) ==
    LET inDegree == inDegreeMap(g)
        queue == SelectSeq(g.nodes, LAMBDA n : inDegree[n] = 0)
        k == kahnLoop(dependentsMap(g), queue, inDegree, {}, <<>>)
    IN  IF Len(k.result) # Len(g.nodes)
        THEN [ok |-> FALSE, error |-> "CircularDependency", order |-> <<>>,
              cycle |-> findCycle(g),
              involved |-> SelectSeq(g.nodes, LAMBDA n : n \notin k.visited)]
        ELSE [ok |-> TRUE, error |-> "none", order |-> k.result,
              cycle |-> <<>>, involved |-> <<>>]

NoSort == [ok |-> FALSE, error |-> "not-called", order |-> <<>>,
           cycle |-> <<>>, involved |-> <<>>]

\* Graph-theoretic vocabulary, independent of the algorithm.
IsEdge(g, x, y) == x \in DOMAIN g.edges /\ y \in Range(g.edges[x])

RECURSIVE ReachFrom(_, _)
ReachFrom(g, S) ==
    LET T == S \cup {y \in Range(g.nodes) : \E x \in S : IsEdge(g, x, y)}
    IN  IF T = S THEN S ELSE ReachFrom(g, T)

HasCycle(g) ==
    \E n \in Range(g.nodes) :
        n \in ReachFrom(g, {y \in Range(g.nodes) : IsEdge(g, n, y)})

EdgeCount(g) ==
    LET RECURSIVE sum(_)
        sum(k) == IF k = 0 THEN 0 ELSE Len(g.edges[g.nodes[k]]) + sum(k - 1)
    IN  sum(Len(g.nodes))

----------------------------------------------------------------------------
(* Values.  A Decimal is held as an integer number of thousandths           *)
(* (19.125 is 19125); a JS number primitive is held the same way but keeps  *)
(* its own tag, because the code tells them apart (instanceof Decimal).     *)

Unit == 10 ^ 3

Dec(n) == [t |-> "decimal", v |-> n]
Num(n) == [t |-> "number", v |-> n]
Null == [t |-> "null", v |-> 0]
Undefined == [t |-> "undefined", v |-> 0]

\* a ?? b : b when a is null or undefined
Coalesce(a, b) == IF a.t \in {"null", "undefined"} THEN b ELSE a

isDecimal(value) == value.t = "decimal"

----------------------------------------------------------------------------
(* DecimalUtils                                                            *)

\* decimal.js toDecimalPlaces(scale, mode) on thousandths
toDecimalPlaces(n, scale, mode) ==
    IF scale >= 3 THEN n
    ELSE LET step == 10 ^ (3 - scale)
             q == n \div step
             r == n - q * step
             up == CASE mode = "FLOOR" -> FALSE
                     [] mode = "CEIL" -> r > 0
                     [] mode = "HALF_UP" -> 2 * r > step \/ (2 * r = step /\ n >= 0)
                     [] mode = "HALF_DOWN" -> 2 * r > step \/ (2 * r = step /\ n < 0)
                     [] OTHER -> FALSE
         IN  IF up THEN (q + 1) * step ELSE q * step

decimalRound(value, scale, mode) == Dec(toDecimalPlaces(value.v, scale, mode))

decimalMultiply(a, b) == Dec((a.v * b.v) \div Unit)

\* divide: dividedBy, then toDecimalPlaces(divisionScale, HALF_UP); thousandths
\* are the finest grain of the model, so the quotient is rounded there.
decimalDivide(a, b) ==
    LET twice == (2 * a.v * Unit) \div b.v
    IN  Dec((twice + 1) \div 2)

----------------------------------------------------------------------------
(* Lexer.  The input is the expression as a sequence of one-character      *)
(* strings; pos is 1-based (the code's this.position + 1).  A token keeps  *)
(* its text as characters; a NUMBER also carries its value in thousandths. *)

LowerLetters == <<"a", "b", "c", "d", "e", "f", "g", "h", "i", "j", "k", "l", "m",
                  "n", "o", "p", "q", "r", "s", "t", "u", "v", "w", "x", "y", "z">>
UpperLetters == <<"A", "B", "C", "D", "E", "F", "G", "H", "I", "J", "K", "L", "M",
                  "N", "O", "P", "Q", "R", "S", "T", "U", "V", "W", "X", "Y", "Z">>
Digits == <<"0", "1", "2", "3", "4", "5", "6", "7", "8", "9">>

isDigit(char) == char \in Range(Digits)
isAlpha(char) == char \in Range(LowerLetters) \cup Range(UpperLetters) \cup {"_"}
isAlphaNumeric(char) == isAlpha(char) \/ isDigit(char)

digitValue(char) == IndexOf(Digits, char) - 1

\* String.prototype.toUpperCase / toLowerCase, character by character
toUpperCase(chars) ==
    LET upperChar(char) ==
            IF char \in Range(LowerLetters) THEN UpperLetters[IndexOf(LowerLetters, char)]
            ELSE char
    IN  [i \in 1..Len(chars) |-> upperChar(chars[i])]
toLowerCase(chars) ==
    LET lowerChar(char) ==
            IF char \in Range(UpperLetters) THEN LowerLetters[IndexOf(UpperLetters, char)]
            ELSE char
    IN  [i \in 1..Len(chars) |-> lowerChar(chars[i])]

\* the string a character sequence spells
RECURSIVE Str(_)
Str(chars) == IF chars = <<>> THEN "" ELSE Head(chars) \o Str(Tail(chars))

Token(type, value) == [type |-> type, value |-> value, num |-> 0, float |-> FALSE]
NumberToken(value, num, float) ==
    [type |-> "NUMBER", value |-> value, num |-> num, float |-> float]

Scanned(token, pos) == [ok |-> TRUE, token |-> token, pos |-> pos, error |-> "none"]
ScanError(error) == [ok |-> FALSE, token |-> Token("EOF", <<>>), pos |-> 0, error |-> error]

\* peek(): the character at pos, or the sentinel past the end
peek(input, pos) == IF pos > Len(input) THEN "\\0" ELSE input[pos]

RECURSIVE skipWhitespace(_, _)
skipWhitespace(input, pos) ==
    IF pos <= Len(input) /\ input[pos] \in {" ", "\t", "\r", "\n"}
    THEN skipWhitespace(input, pos + 1) ELSE pos

\* the end of the run of digits (alphanumerics when `alpha`) that starts at pos
RECURSIVE runEnd(_, _, _)
runEnd(input, pos, alpha) ==
    IF pos <= Len(input) /\ (IF alpha THEN isAlphaNumeric(input[pos]) ELSE isDigit(input[pos]))
    THEN runEnd(input, pos + 1, alpha) ELSE pos

\* scanVariable / scanContextVariable: pos is just after the '$' or '@'
scanName(input, pos, type) ==
    LET end == runEnd(input, pos, TRUE)
    IN  IF end = pos THEN ScanError("SyntaxError")
        ELSE Scanned(Token(type, SubSeq(input, pos, end - 1)), end)

escapeChar(escaped) ==
    CASE escaped = "n" -> "\n"
      [] escaped = "t" -> "\t"
      [] escaped = "r" -> "\r"
      [] OTHER -> escaped

\* scanString: pos is just after the opening quote
RECURSIVE scanString(_, _, _, _)
scanString(input, pos, quote, value) ==
    IF pos > Len(input) THEN ScanError("UnterminatedString")
    ELSE IF input[pos] = quote THEN Scanned(Token("STRING", value), pos + 1)
    ELSE IF input[pos] = "\\"
    THEN IF pos + 1 > Len(input) THEN scanString(input, pos + 1, quote, value)
         ELSE scanString(input, pos + 2, quote, Append(value, escapeChar(input[pos + 1])))
    ELSE scanString(input, pos + 1, quote, Append(value, input[pos]))

\* the integer a run of digits denotes
RECURSIVE digitsValue(_)
digitsValue(chars) ==
    IF chars = <<>> THEN 0
    ELSE digitsValue(SubSeq(chars, 1, Len(chars) - 1)) * 10 + digitValue(chars[Len(chars)])

\* scanNumber: pos is just after the first digit, which is at pos - 1.  The
\* integer part ends at intEnd, the decimal part at fracEnd, the exponent's
\* digits run from expStart to expEnd; num is the value in thousandths
\* (fraction digits past the third are below the grain of the model).
scanNumber(input, pos) ==
    LET fractionDigit(chars, i) == IF i <= Len(chars) THEN digitValue(chars[i]) ELSE 0
        fractionValue(chars) ==
            100 * fractionDigit(chars, 1) + 10 * fractionDigit(chars, 2)
            + fractionDigit(chars, 3)
        scaleByExponent(num, negative, exponent) ==
            IF negative THEN num \div (10 ^ exponent) ELSE num * (10 ^ exponent)
        \* the two suffix checks and addToken
        numberSuffixes(numEnd, num, isFloat) ==
            LET floatSuffix == peek(input, numEnd) \in {"f", "F"}
                afterFloat == IF floatSuffix THEN numEnd + 1 ELSE numEnd
                decimalSuffix == peek(input, afterFloat) \in {"d", "D"}
            IN  Scanned(NumberToken(SubSeq(input, pos - 1, numEnd - 1), num,
                                    (isFloat \/ floatSuffix) /\ ~decimalSuffix),
                        IF decimalSuffix THEN afterFloat + 1 ELSE afterFloat)
        exponentValue(fracEnd, mantissa, expStart, expEnd) ==
            numberSuffixes(expEnd,
                           scaleByExponent(mantissa,
                                           expStart = fracEnd + 2
                                           /\ input[fracEnd + 1] = "-",
                                           digitsValue(SubSeq(input, expStart,
                                                              expEnd - 1))),
                           TRUE)
        \* after 'e' and the sign: a digit must follow
        exponentDigits(fracEnd, mantissa, expStart) ==
            IF ~isDigit(peek(input, expStart)) THEN ScanError("InvalidNumber")
            ELSE exponentValue(fracEnd, mantissa, expStart,
                               runEnd(input, expStart, FALSE))
        \* "Exponent part"
        exponentPart(intEnd, fracEnd, mantissa) ==
            IF peek(input, fracEnd) \in {"e", "E"}
            THEN exponentDigits(fracEnd, mantissa,
                                IF peek(input, fracEnd + 1) \in {"+", "-"}
                                THEN fracEnd + 2 ELSE fracEnd + 1)
            ELSE numberSuffixes(fracEnd, mantissa, FALSE)
        mantissaOf(intEnd, fracEnd) ==
            digitsValue(SubSeq(input, pos - 1, intEnd - 1)) * Unit
            + (IF fracEnd > intEnd
               THEN fractionValue(SubSeq(input, intEnd + 1, fracEnd - 1)) ELSE 0)
        afterFraction(intEnd, fracEnd) ==
            exponentPart(intEnd, fracEnd, mantissaOf(intEnd, fracEnd))
        \* "Decimal part"
        decimalPart(intEnd) ==
            afterFraction(intEnd,
                          IF peek(input, intEnd) = "." /\ isDigit(peek(input, intEnd + 1))
                          THEN runEnd(input, intEnd + 1, FALSE) ELSE intEnd)
    IN  decimalPart(runEnd(input, pos, FALSE))

\* scanIdentifier: pos is just after the first character, which is at pos - 1
scanIdentifier(input, pos) ==
    LET end == runEnd(input, pos, TRUE)
        name == SubSeq(input, pos - 1, end - 1)
        keyword(n) == CASE Str(n) \in {"true", "false"} -> "BOOLEAN"
                        [] Str(n) = "null" -> "NULL"
                        [] Str(n) \in {"AND", "OR", "NOT"} -> Str(n)
                        [] OTHER -> "none"
        keywordType == IF keyword(name) # "none" THEN keyword(name)
                       ELSE keyword(toUpperCase(name))
    IN  CASE keywordType = "none" -> Scanned(Token("IDENTIFIER", name), end)
          [] keywordType = "BOOLEAN" -> Scanned(Token("BOOLEAN", toLowerCase(name)), end)
          [] keywordType = "NULL" -> Scanned(Token("NULL", <<>>), end)
          [] OTHER -> Scanned(Token(keywordType, toUpperCase(name)), end)

\* the single-character tokens of scanToken's switch
PunctuationType(char) ==
    CASE char = "(" -> "LPAREN"    [] char = ")" -> "RPAREN"
      [] char = "[" -> "LBRACKET"  [] char = "]" -> "RBRACKET"
      [] char = "," -> "COMMA"     [] char = "." -> "DOT"
      [] char = "?" -> "QUESTION"  [] char = ":" -> "COLON"
      [] char = "+" -> "PLUS"      [] char = "-" -> "MINUS"
      [] char = "*" -> "MULTIPLY"  [] char = "/" -> "DIVIDE"
      [] char = "%" -> "MODULO"    [] char = "^" -> "POWER"
      [] OTHER -> "none"

\* scanToken: pos is the position of the character it consumes first
scanToken(input, pos) ==
    LET char == input[pos]
        next == peek(input, pos + 1)
        two(type) == Scanned(Token(type, <<char, next>>), pos + 2)
        one(type) == Scanned(Token(type, <<char>>), pos + 1)
    IN  CASE PunctuationType(char) # "none" -> one(PunctuationType(char))
          [] char = "=" -> IF next = "=" THEN two("EQ") ELSE ScanError("SyntaxError")
          [] char = "!" -> IF next = "=" THEN two("NEQ") ELSE one("NOT")
          [] char = "<" -> IF next = "=" THEN two("LTE") ELSE one("LT")
          [] char = ">" -> IF next = "=" THEN two("GTE") ELSE one("GT")
          [] char = "&" -> IF next = "&" THEN two("AND") ELSE ScanError("SyntaxError")
          [] char = "|" -> IF next = "|" THEN two("OR") ELSE ScanError("SyntaxError")
          [] char = "$" -> scanName(input, pos + 1, "VARIABLE")
          [] char = "@" -> scanName(input, pos + 1, "CONTEXT_VAR")
          [] char \in {"\"", "'"} -> scanString(input, pos + 1, char, <<>>)
          [] isDigit(char) -> scanNumber(input, pos + 1)
          [] isAlpha(char) -> scanIdentifier(input, pos + 1)
          [] OTHER -> ScanError("SyntaxError")

\* tokenize's while loop
RECURSIVE tokenizeFrom(_, _, _)
tokenizeFrom(input, pos, tokens) ==
    LET added(r) ==
            IF ~r.ok THEN [ok |-> FALSE, tokens |-> <<>>, error |-> r.error]
            ELSE tokenizeFrom(input, r.pos, Append(tokens, r.token))
        scanAt(p) ==
            IF p > Len(input)
            THEN [ok |-> TRUE, tokens |-> Append(tokens, Token("EOF", <<>>)),
                  error |-> "none"]
            ELSE added(scanToken(input, p))
    IN  scanAt(skipWhitespace(input, pos))

tokenize(input) == tokenizeFrom(input, 1, <<>>)

----------------------------------------------------------------------------
(* Parser: a Pratt parser over the token list; cur is 1-based (the code's  *)
(* this.current + 1).  A DecimalLiteral holds the value its digits denote  *)
(* (the code keeps the digits and the Evaluator converts them).            *)

DecimalLiteral(n) == [type |-> "DecimalLiteral", value |-> n]
NumberLiteral(n) == [type |-> "NumberLiteral", value |-> n]
StringLiteral(str) == [type |-> "StringLiteral", value |-> str]
BooleanLiteral(b) == [type |-> "BooleanLiteral", value |-> b]
NullLiteral == [type |-> "NullLiteral"]
ArrayLiteral(elements) == [type |-> "ArrayLiteral", elements |-> elements]
VariableReference(p, n) == [type |-> "VariableReference", prefix |-> p, name |-> n]
BinaryOperation(op, l, r) ==
    [type |-> "BinaryOperation", operator |-> op, left |-> l, right |-> r]
UnaryOperation(op, operand) ==
    [type |-> "UnaryOperation", operator |-> op, operand |-> operand]
ConditionalExpression(c, t, e) ==
    [type |-> "ConditionalExpression", condition |-> c, consequent |-> t, alternate |-> e]
FunctionCall(name, arguments) ==
    [type |-> "FunctionCall", name |-> name, arguments |-> arguments]
MemberAccess(object, property) ==
    [type |-> "MemberAccess", object |-> object, property |-> property]
IndexAccess(object, index) == [type |-> "IndexAccess", object |-> object, index |-> index]

PRECEDENCE ==
    [LOWEST |-> 1, TERNARY |-> 2, OR |-> 3, AND |-> 4, EQUALITY |-> 5, COMPARISON |-> 6,
     TERM |-> 7, FACTOR |-> 8, POWER |-> 9, UNARY |-> 10, CALL |-> 11, MEMBER |-> 12]

getTokenPrecedence(type) ==
    CASE type = "OR" -> PRECEDENCE.OR
      [] type = "AND" -> PRECEDENCE.AND
      [] type \in {"EQ", "NEQ"} -> PRECEDENCE.EQUALITY
      [] type \in {"LT", "GT", "LTE", "GTE"} -> PRECEDENCE.COMPARISON
      [] type \in {"PLUS", "MINUS"} -> PRECEDENCE.TERM
      [] type \in {"MULTIPLY", "DIVIDE", "MODULO"} -> PRECEDENCE.FACTOR
      [] type = "POWER" -> PRECEDENCE.POWER
      [] type \in {"DOT", "LBRACKET"} -> PRECEDENCE.MEMBER
      [] type = "QUESTION" -> PRECEDENCE.TERNARY
      [] OTHER -> PRECEDENCE.LOWEST

getOperatorSymbol(type) ==
    CASE type = "PLUS" -> "+"      [] type = "MINUS" -> "-"
      [] type = "MULTIPLY" -> "*"  [] type = "DIVIDE" -> "/"
      [] type = "MODULO" -> "%"    [] type = "POWER" -> "^"
      [] type = "EQ" -> "=="       [] type = "NEQ" -> "!="
      [] type = "LT" -> "<"        [] type = "GT" -> ">"
      [] type = "LTE" -> "<="      [] type = "GTE" -> ">="
      [] type = "AND" -> "&&"      [] type = "OR" -> "||"
      [] type = "NOT" -> "!"
      [] OTHER -> ""

BinaryTokenTypes ==
    {"PLUS", "MINUS", "MULTIPLY", "DIVIDE", "MODULO", "POWER", "EQ", "NEQ",
     "LT", "GT", "LTE", "GTE", "AND", "OR"}

\* what a parse method returns: the node and the cursor after it, or the throw
Parsed(node, cur) == [ok |-> TRUE, node |-> node, cur |-> cur, error |-> "none"]
ParseError(error) == [ok |-> FALSE, node |-> NullLiteral, cur |-> 0, error |-> error]

\* expect(type): the cursor after the token, or 0 for UnexpectedTokenError
expect(tokens, cur, type) == IF tokens[cur].type = type THEN cur + 1 ELSE 0

parseNumber(token) ==
    IF token.float THEN NumberLiteral(token.num) ELSE DecimalLiteral(token.num)

RECURSIVE parseExpression(_, _, _)
RECURSIVE parseInfixLoop(_, _, _, _)
RECURSIVE parsePrefixExpression(_, _)
RECURSIVE parseInfixExpression(_, _, _)
RECURSIVE parseElements(_, _, _)
RECURSIVE parseMemberAccess(_, _, _)
RECURSIVE parseIndexAccess(_, _, _)

parseExpression(tokens, cur, precedence) ==
    LET infix(left) ==
            IF ~left.ok THEN left
            ELSE parseInfixLoop(tokens, left.cur, precedence, left.node)
    IN  infix(parsePrefixExpression(tokens, cur))

\* while (!this.isAtEnd() && precedence < this.getPrecedence())
parseInfixLoop(tokens, cur, precedence, left) ==
    IF tokens[cur].type # "EOF" /\ precedence < getTokenPrecedence(tokens[cur].type)
    THEN LET again(r) ==
                 IF ~r.ok THEN r ELSE parseInfixLoop(tokens, r.cur, precedence, r.node)
         IN  again(parseInfixExpression(tokens, cur, left))
    ELSE Parsed(left, cur)

\* the do-while of parseFunctionCall and parseArrayLiteral; node is the list
parseElements(tokens, cur, elements) ==
    LET start == IF tokens[cur].type = "COMMA" THEN cur + 1 ELSE cur
        more(e) ==
            IF ~e.ok THEN e
            ELSE IF tokens[e.cur].type = "COMMA"
            THEN parseElements(tokens, e.cur, Append(elements, e.node))
            ELSE Parsed(Append(elements, e.node), e.cur)
    IN  more(parseExpression(tokens, start, PRECEDENCE.LOWEST))

\* parseFunctionCall / parseArrayLiteral: cur is just after the '(' or '['
parseBracketed(tokens, cur, closing) ==
    LET close(list) ==
            IF ~list.ok THEN list
            ELSE IF expect(tokens, list.cur, closing) = 0
            THEN ParseError("UnexpectedToken")
            ELSE Parsed(list.node, list.cur + 1)
    IN  close(IF tokens[cur].type # closing THEN parseElements(tokens, cur, <<>>)
              ELSE Parsed(<<>>, cur))

parseIdentifierOrFunctionCall(tokens, cur) ==
    IF tokens[cur + 1].type = "LPAREN"
    THEN LET call(args) ==
                 IF ~args.ok THEN args
                 ELSE Parsed(FunctionCall(Str(toUpperCase(tokens[cur].value)), args.node),
                             args.cur)
         IN  call(parseBracketed(tokens, cur + 2, "RPAREN"))
    ELSE ParseError("SyntaxError")

parsePrefixExpression(tokens, cur) ==
    LET token == tokens[cur]
        grouped(e) ==
            IF ~e.ok THEN e
            ELSE IF expect(tokens, e.cur, "RPAREN") = 0 THEN ParseError("UnexpectedToken")
            ELSE Parsed(e.node, e.cur + 1)
        array(list) ==
            IF ~list.ok THEN list ELSE Parsed(ArrayLiteral(list.node), list.cur)
        unary(operand) ==
            IF ~operand.ok THEN operand
            ELSE Parsed(UnaryOperation(getOperatorSymbol(token.type), operand.node),
                        operand.cur)
    IN  CASE token.type = "NUMBER" -> Parsed(parseNumber(token), cur + 1)
          [] token.type = "STRING" -> Parsed(StringLiteral(Str(token.value)), cur + 1)
          [] token.type = "BOOLEAN" ->
                Parsed(BooleanLiteral(Str(token.value) = "true"), cur + 1)
          [] token.type = "NULL" -> Parsed(NullLiteral, cur + 1)
          [] token.type = "VARIABLE" ->
                Parsed(VariableReference("$", Str(token.value)), cur + 1)
          [] token.type = "CONTEXT_VAR" ->
                Parsed(VariableReference("@", Str(token.value)), cur + 1)
          [] token.type = "IDENTIFIER" -> parseIdentifierOrFunctionCall(tokens, cur)
          [] token.type = "LPAREN" ->
                grouped(parseExpression(tokens, cur + 1, PRECEDENCE.LOWEST))
          [] token.type = "LBRACKET" ->
                array(parseBracketed(tokens, cur + 1, "RBRACKET"))
          [] token.type \in {"MINUS", "NOT"} ->
                unary(parseExpression(tokens, cur + 1, PRECEDENCE.UNARY))
          [] OTHER -> ParseError("UnexpectedToken")

\* after a member or index access: a chained '.' or '[' is parsed at once
chainedAccess(tokens, cur, node) ==
    CASE tokens[cur].type = "DOT" -> parseMemberAccess(tokens, cur, node)
      [] tokens[cur].type = "LBRACKET" -> parseIndexAccess(tokens, cur, node)
      [] OTHER -> Parsed(node, cur)

\* cur is at the '.'
parseMemberAccess(tokens, cur, object) ==
    LET token == tokens[cur + 1]
    IN  IF token.type \notin {"IDENTIFIER", "VARIABLE"} THEN ParseError("UnexpectedToken")
        ELSE chainedAccess(tokens, cur + 2, MemberAccess(object, Str(token.value)))

\* cur is at the '['
parseIndexAccess(tokens, cur, object) ==
    LET indexed(index) ==
            IF ~index.ok THEN index
            ELSE IF expect(tokens, index.cur, "RBRACKET") = 0
            THEN ParseError("UnexpectedToken")
            ELSE chainedAccess(tokens, index.cur + 1, IndexAccess(object, index.node))
    IN  indexed(parseExpression(tokens, cur + 1, PRECEDENCE.LOWEST))

parseInfixExpression(tokens, cur, left) ==
    LET type == tokens[cur].type
        binary(right) ==
            IF ~right.ok THEN right
            ELSE Parsed(BinaryOperation(getOperatorSymbol(type), left, right.node),
                        right.cur)
        ternary(consequent, alternate) ==
            IF ~alternate.ok THEN alternate
            ELSE Parsed(ConditionalExpression(left, consequent.node, alternate.node),
                        alternate.cur)
        afterConsequent(consequent) ==
            IF ~consequent.ok THEN consequent
            ELSE IF expect(tokens, consequent.cur, "COLON") = 0
            THEN ParseError("UnexpectedToken")
            ELSE ternary(consequent, parseExpression(tokens, consequent.cur + 1,
                                                     PRECEDENCE.TERNARY - 1))
    IN  CASE type \in BinaryTokenTypes ->
                \* parseBinaryExpression: '^' is right-associative
                binary(parseExpression(tokens, cur + 1,
                                       IF type = "POWER" THEN getTokenPrecedence(type) - 1
                                       ELSE getTokenPrecedence(type)))
          [] type = "QUESTION" ->
                \* parseTernaryExpression
                afterConsequent(parseExpression(tokens, cur + 1, PRECEDENCE.LOWEST))
          [] type = "DOT" -> parseMemberAccess(tokens, cur, left)
          [] type = "LBRACKET" -> parseIndexAccess(tokens, cur, left)
          [] OTHER -> Parsed(left, cur)

ParseOk(ast) == [ok |-> TRUE, ast |-> ast, error |-> "none"]
ParseFail(error) == [ok |-> FALSE, ast |-> NullLiteral, error |-> error]

\* Parser.parse on the characters of an expression
parse(input) ==
    LET atEnd(tokens, ast) ==
            IF ~ast.ok THEN ParseFail(ast.error)
            ELSE IF tokens[ast.cur].type # "EOF" THEN ParseFail("UnexpectedToken")
            ELSE ParseOk(ast.node)
        parseTokens(lexed) ==
            IF ~lexed.ok THEN ParseFail(lexed.error)
            ELSE atEnd(lexed.tokens, parseExpression(lexed.tokens, 1, PRECEDENCE.LOWEST))
    IN  parseTokens(tokenize(input))

\* The expressions the engine is given are named by their text; Chars spells
\* each one out for the Lexer.
Chars(expression) ==
    CASE expression = "19.125" -> <<"1", "9", ".", "1", "2", "5">>
      [] expression = "$a * 2" -> <<"$", "a", " ", "*", " ", "2">>
      [] expression = "$b * 2" -> <<"$", "b", " ", "*", " ", "2">>
      [] expression = "$c * 2" -> <<"$", "c", " ", "*", " ", "2">>
      [] expression = "$x / $y" -> <<"$", "x", " ", "/", " ", "$", "y">>
      [] expression = "$b *" -> <<"$", "b", " ", "*">>
      [] expression = "DOUBLE($x)" -> <<"D", "O", "U", "B", "L", "E", "(", "$", "x", ")">>
      [] expression = "double($x)" -> <<"d", "o", "u", "b", "l", "e", "(", "$", "x", ")">>
      [] expression = "ABS($x)" -> <<"A", "B", "S", "(", "$", "x", ")">>
      [] expression = "ABS()" -> <<"A", "B", "S", "(", ")">>
      [] expression = "SUM([1])" -> <<"S", "U", "M", "(", "[", "1", "]", ")">>
      [] expression = "SUM([1], 2)" ->
            <<"S", "U", "M", "(", "[", "1", "]", ",", " ", "2", ")">>
      [] expression = "FILTER([1], 2)" ->
            <<"F", "I", "L", "T", "E", "R", "(", "[", "1", "]", ",", " ", "2", ")">>
      [] expression = "MAP([1], 2)" ->
            <<"M", "A", "P", "(", "[", "1", "]", ",", " ", "2", ")">>
      [] expression = "double" -> <<"d", "o", "u", "b", "l", "e">>
      [] expression = "abs" -> <<"a", "b", "s">>
      [] expression = "Sum" -> <<"S", "u", "m">>
      [] expression = "filter" -> <<"f", "i", "l", "t", "e", "r">>
      [] expression = "map" -> <<"m", "a", "p">>
      [] expression = "false && $undef" ->
            <<"f", "a", "l", "s", "e", " ", "&", "&", " ", "$", "u", "n", "d", "e", "f">>
      [] expression = "true || $undef" ->
            <<"t", "r", "u", "e", " ", "|", "|", " ", "$", "u", "n", "d", "e", "f">>
      [] expression = "true && $undef" ->
            <<"t", "r", "u", "e", " ", "&", "&", " ", "$", "u", "n", "d", "e", "f">>
      [] expression = "false || $undef" ->
            <<"f", "a", "l", "s", "e", " ", "|", "|", " ", "$", "u", "n", "d", "e", "f">>
      [] expression = "true && $y" ->
            <<"t", "r", "u", "e", " ", "&", "&", " ", "$", "y">>
      [] expression = "false || $x" ->
            <<"f", "a", "l", "s", "e", " ", "|", "|", " ", "$", "x">>
      [] expression = "[1, 2, 3]" ->
            <<"[", "1", ",", " ", "2", ",", " ", "3", "]">>
      [] expression = "[[[1]]]" ->
            <<"[", "[", "[", "1", "]", "]", "]">>
      [] expression = "[[1]]" ->
            <<"[", "[", "1", "]", "]">>
      [] expression = "IF(0, 1, 2)" ->
            <<"I", "F", "(", "0", ",", " ", "1", ",", " ", "2", ")">>
      [] expression = "0 ? 1 : 2" ->
            <<"0", " ", "?", " ", "1", " ", ":", " ", "2">>
      [] expression = "IF([], 1, 2)" ->
            <<"I", "F", "(", "[", "]", ",", " ", "1", ",", " ", "2", ")">>
      [] expression = "[] ? 1 : 2" ->
            <<"[", "]", " ", "?", " ", "1", " ", ":", " ", "2">>
      [] expression = "IF(\"\", 1, 2)" ->
            <<"I", "F", "(", "\"", "\"", ",", " ", "1", ",", " ", "2", ")">>
      [] expression = "\"\" ? 1 : 2" ->
            <<"\"", "\"", " ", "?", " ", "1", " ", ":", " ", "2">>
      [] expression = "IF(null, 1, 2)" ->
            <<"I", "F", "(", "n", "u", "l", "l", ",", " ", "1", ",", " ", "2", ")">>
      [] expression = "null ? 1 : 2" ->
            <<"n", "u", "l", "l", " ", "?", " ", "1", " ", ":", " ", "2">>
      [] expression = "IF($x, 1, 2)" ->
            <<"I", "F", "(", "$", "x", ",", " ", "1", ",", " ", "2", ")">>
      [] expression = "$x ? 1 : 2" ->
            <<"$", "x", " ", "?", " ", "1", " ", ":", " ", "2">>
      [] expression = "IF(0f, 1, 2)" ->
            <<"I", "F", "(", "0", "f", ",", " ", "1", ",", " ", "2", ")">>
      [] expression = "0f ? 1 : 2" ->
            <<"0", "f", " ", "?", " ", "1", " ", ":", " ", "2">>
      [] expression = "IF(false, 1, 2)" ->
            <<"I", "F", "(", "f", "a", "l", "s", "e", ",", " ", "1", ",", " ", "2", ")">>
      [] expression = "false ? 1 : 2" ->
            <<"f", "a", "l", "s", "e", " ", "?", " ", "1", " ", ":", " ", "2">>
      [] expression = "IF([0], $x, 2)" ->
            <<"I", "F", "(", "[", "0", "]", ",", " ", "$", "x", ",", " ", "2", ")">>
      [] expression = "[0] ? $x : 2" ->
            <<"[", "0", "]", " ", "?", " ", "$", "x", " ", ":", " ", "2">>

Expressions == {"19.125", "$a * 2", "$b * 2", "$c * 2", "$x / $y", "$b *"}

\* expressions that call functions of the library
CallExpressions ==
    {"DOUBLE($x)", "double($x)", "ABS($x)", "ABS()", "SUM([1])", "SUM([1], 2)",
     "FILTER([1], 2)", "MAP([1], 2)"}

\* && and || with a right operand that is not in the context, or is
LogicalExpressions ==
    {"false && $undef", "true || $undef", "true && $undef", "false || $undef",
     "true && $y", "false || $x"}

\* array literals: flat with four nodes, and nested three and four deep
ArrayExpressions == {"[1, 2, 3]", "[[[1]]]", "[[1]]"}

\* IF(c, t, f) next to c ? t : f, for conditions of every kind of value
ConditionalPairs ==
    {<<"IF(0, 1, 2)", "0 ? 1 : 2">>,
     <<"IF([], 1, 2)", "[] ? 1 : 2">>,
     <<"IF(\"\", 1, 2)", "\"\" ? 1 : 2">>,
     <<"IF(null, 1, 2)", "null ? 1 : 2">>,
     <<"IF($x, 1, 2)", "$x ? 1 : 2">>,
     <<"IF(0f, 1, 2)", "0f ? 1 : 2">>,
     <<"IF(false, 1, 2)", "false ? 1 : 2">>,
     <<"IF([0], $x, 2)", "[0] ? $x : 2">>}

EvaluatedExpressions ==
    LogicalExpressions \cup ArrayExpressions
    \cup {pair[1] : pair \in ConditionalPairs} \cup {pair[2] : pair \in ConditionalPairs}

\* Parser.parse is a function of the text: every call on `expression` builds
\* this result
ParseTable ==
    [expression \in Expressions \cup CallExpressions \cup EvaluatedExpressions |->
        parse(Chars(expression))]

parserParse(expression) == ParseTable[expression]

----------------------------------------------------------------------------
(* DependencyExtractor                                                     *)

RECURSIVE visit(_, _)
RECURSIVE visitAll(_, _, _)
RECURSIVE visitMemberRoot(_, _)

\* for (const arg of node.arguments) / for (const element of node.elements)
visitAll(list, k, dependencies) ==
    IF k > Len(list) THEN dependencies
    ELSE visitAll(list, k + 1, visit(list[k], dependencies))

\* the root of a chain without the dependencies of its bracket indexes
visitMemberRoot_IgnoresIndex(node, dependencies) ==
    CASE node.type = "VariableReference" ->
            IF node.prefix = "$" THEN SetAdd(dependencies, node.name) ELSE dependencies
      [] node.type \in {"MemberAccess", "IndexAccess"} ->
            visitMemberRoot(node.object, dependencies)
      [] OTHER -> visit(node, dependencies)

\* visitMemberRoot: the root of a member/index access chain
visitMemberRoot(node, dependencies) ==
    CASE node.type = "VariableReference" ->
            IF node.prefix = "$" THEN SetAdd(dependencies, node.name) ELSE dependencies
      [] node.type = "MemberAccess" -> visitMemberRoot(node.object, dependencies)
      [] node.type = "IndexAccess" ->
            visit(node.index, visitMemberRoot(node.object, dependencies))
      [] OTHER -> visit(node, dependencies)

\* visit; the Parser builds no ObjectLiteral node, and the literals add nothing
visit(node, dependencies) ==
    CASE node.type = "VariableReference" ->
            IF node.prefix = "$" THEN SetAdd(dependencies, node.name) ELSE dependencies
      [] node.type = "BinaryOperation" ->
            visit(node.right, visit(node.left, dependencies))
      [] node.type = "UnaryOperation" -> visit(node.operand, dependencies)
      [] node.type = "ConditionalExpression" ->
            visit(node.alternate,
                  visit(node.consequent, visit(node.condition, dependencies)))
      [] node.type = "FunctionCall" -> visitAll(node.arguments, 1, dependencies)
      [] node.type = "MemberAccess" -> visitMemberRoot(node.object, dependencies)
      [] node.type = "IndexAccess" ->
            visit(node.index, visitMemberRoot(node.object, dependencies))
      [] node.type = "ArrayLiteral" -> visitAll(node.elements, 1, dependencies)
      [] OTHER -> dependencies

\* an extraction that finds no variable
extractFromNode_Nothing(node) == <<>>

\* extractFromNode(node)
extractFromNode(node) == visit(node, <<>>)

\* extract(expression): parses with its own Parser, so a syntax error throws
extract(expression) ==
    LET visitAst(p) ==
            IF p.ok THEN [ok |-> TRUE, deps |-> extractFromNode(p.ast), error |-> "none"]
            ELSE [ok |-> FALSE, deps |-> <<>>, error |-> p.error]
    IN  visitAst(parserParse(expression))

----------------------------------------------------------------------------
(* DependencyGraphBuilder                                                  *)

FormulaIds(fs) == {fs[i].id : i \in 1..Len(fs)}

RECURSIVE addAllNodes(_, _, _)
addAllNodes(fs, k, g) ==
    IF k > Len(fs) THEN g ELSE addAllNodes(fs, k + 1, addNode(g, fs[k].id))

\* an edge for every dependency, whether or not it is a formula id
RECURSIVE addDepEdges_AnyName(_, _, _, _, _)
addDepEdges_AnyName(id, deps, k, formulaIds, g) ==
    IF k > Len(deps) THEN g
    ELSE addDepEdges_AnyName(id, deps, k + 1, formulaIds, addEdge(g, id, deps[k]))

\* for (const dep of deps): edges only to other formulas
RECURSIVE addDepEdges(_, _, _, _, _)
addDepEdges(id, deps, k, formulaIds, g) ==
    IF k > Len(deps) THEN g
    ELSE addDepEdges(id, deps, k + 1, formulaIds,
                     IF deps[k] \in formulaIds THEN addEdge(g, id, deps[k]) ELSE g)

RECURSIVE buildEdges(_, _, _)
buildEdges(fs, k, g) ==
    IF k > Len(fs) THEN [ok |-> TRUE, graph |-> g, error |-> "none"]
    ELSE LET formula == fs[k]
             withDeps(ex) ==
                 IF ~ex.ok THEN [ok |-> FALSE, graph |-> g, error |-> ex.error]
                 ELSE buildEdges(fs, k + 1,
                                 addDepEdges(formula.id, ex.deps, 1, FormulaIds(fs), g))
         IN  withDeps(IF formula.dependencies.given
                      THEN [ok |-> TRUE, deps |-> formula.dependencies.list,
                            error |-> "none"]
                      ELSE extract(formula.expression))

build(fs) == buildEdges(fs, 1, addAllNodes(fs, 1, EmptyGraph))

\* the nodes in insertion order, without the sort
getEvaluationOrder_Unsorted(fs) ==
    LET unsorted(b, s) ==
            [ok |-> s.ok, error |-> s.error,
             order |-> IF s.ok THEN b.graph.nodes ELSE <<>>]
        sortGraph(b) ==
            IF ~b.ok THEN [ok |-> FALSE, error |-> b.error, order |-> <<>>]
            ELSE unsorted(b, topologicalSort(b.graph))
    IN  sortGraph(build(fs))

\* getEvaluationOrder: build, then topologicalSort; either may throw
getEvaluationOrder(fs) ==
    LET sorted(s) == [ok |-> s.ok, error |-> s.error, order |-> s.order]
        sortGraph(b) ==
            IF ~b.ok THEN [ok |-> FALSE, error |-> b.error, order |-> <<>>]
            ELSE sorted(topologicalSort(b.graph))
    IN  sortGraph(build(fs))

----------------------------------------------------------------------------
(* Evaluator                                                               *)

Value(v) == [ok |-> TRUE, value |-> v, error |-> "none"]
Throw(e) == [ok |-> FALSE, value |-> Null, error |-> e]

isNumeric(value) == value.t \in {"decimal", "number"}

\* toDecimal on a numeric value
toDecimal(value) == Dec(value.v)

maybeConvertToDecimal(value) == IF value.t = "number" THEN Dec(value.v) ELSE value

\* variables: the context.variables object; the model's contexts carry no extra
evaluateVariable(prefix, name, variables, strictMode) ==
    IF prefix = "$"
    THEN IF name \in DOMAIN variables
         THEN Value(maybeConvertToDecimal(variables[name]))
         ELSE IF strictMode THEN Throw("UndefinedVariable") ELSE Value(Null)
    ELSE IF strictMode THEN Throw("UndefinedVariable") ELSE Value(Null)

multiply(left, right) ==
    IF ~isNumeric(left) \/ ~isNumeric(right) THEN Throw("InvalidOperation")
    ELSE Value(decimalMultiply(toDecimal(left), toDecimal(right)))

divide(left, right) ==
    IF ~isNumeric(left) \/ ~isNumeric(right) THEN Throw("InvalidOperation")
    ELSE IF toDecimal(right).v = 0 THEN Throw("DivisionByZero")
    ELSE Value(decimalDivide(toDecimal(left), toDecimal(right)))

Arr(items) == [t |-> "array", v |-> items]
Bool(b) == [t |-> "boolean", v |-> b]
StringValue(str) == [t |-> "string", v |-> str]

toBool(value) ==
    CASE value.t \in {"decimal", "number"} -> value.v # 0
      [] value.t = "boolean" -> value.v
      [] value.t \in {"null", "undefined"} -> FALSE
      [] value.t = "string" -> value.v # ""
      [] value.t = "array" -> Len(value.v) > 0
      [] OTHER -> TRUE

\* FunctionDefinition; the implementation closure is named, and
\* callImplementation says what each named closure does
FunctionDefinition(name, minArgs, maxArgs, implementation) ==
    [name |-> name, minArgs |-> minArgs, maxArgs |-> maxArgs,
     implementation |-> implementation]

\* createBuiltInFunctions: the entries of the library the model's expressions
\* call (the library has some fifty more, all registered the same way)
BuiltInFunctions ==
    [name \in {"ABS", "SUM", "FILTER", "MAP", "IF"} |->
        CASE name = "ABS" -> FunctionDefinition("ABS", 1, 1, "ABS")
          [] name = "IF" -> FunctionDefinition("IF", 3, 3, "IF")
          [] name = "SUM" -> FunctionDefinition("SUM", 1, 2, "SUM")
          [] name = "FILTER" -> FunctionDefinition("FILTER", 2, 2, "FILTER")
          [] name = "MAP" -> FunctionDefinition("MAP", 2, 2, "MAP")]

\* definitions a client registers: DOUBLE of the engine's own test, and
\* replacements of built-ins that take other argument counts and return 42
CustomDefinitions ==
    {FunctionDefinition("double", 1, 1, "double"),
     FunctionDefinition("abs", 0, 0, "fortyTwo"),
     FunctionDefinition("Sum", 2, 2, "fortyTwo"),
     FunctionDefinition("filter", 2, 2, "fortyTwo"),
     FunctionDefinition("map", 2, 2, "fortyTwo")}

\* decimalUtils.sum(arr.map(v => toDecimal(v))) of the SUM built-in
RECURSIVE sumImplementation(_, _, _)
sumImplementation(items, k, total) ==
    IF k > Len(items) THEN Value(Dec(total))
    ELSE IF ~isNumeric(items[k]) THEN Throw("TypeMismatch")
    ELSE sumImplementation(items, k + 1, total + items[k].v)

\* what JavaScript's `value ? a : b` takes for true: an object (a Decimal, an
\* array) always, a number unless it is 0, a string unless it is empty
jsTruthy(value) ==
    CASE value.t = "boolean" -> value.v
      [] value.t \in {"null", "undefined"} -> FALSE
      [] value.t = "number" -> value.v # 0
      [] value.t = "string" -> value.v # ""
      [] OTHER -> TRUE

\* fn.implementation(args, context, this)
callImplementation(implementation, args) ==
    CASE implementation = "IF" -> Value(IF jsTruthy(args[1]) THEN args[2] ELSE args[3])
      [] implementation = "ABS" ->
            IF ~isNumeric(args[1]) THEN Throw("TypeMismatch")
            ELSE Value(Dec(IF args[1].v < 0 THEN -args[1].v ELSE args[1].v))
      [] implementation = "SUM" ->
            IF args[1].t # "array" THEN Throw("TypeMismatch")
            ELSE IF Len(args) = 1 THEN sumImplementation(args[1].v, 1, 0)
            ELSE Throw("Error")
      [] implementation \in {"FILTER", "MAP"} -> Throw("Error")
      \* (args) => (args[0] as Decimal).times(2), the custom function of the
      \* engine's own test
      [] implementation = "double" ->
            IF Len(args) = 0 \/ ~isDecimal(args[1]) THEN Throw("TypeError")
            ELSE Value(decimalMultiply(args[1], Dec(2 * Unit)))
      \* () => new Decimal(42)
      [] implementation = "fortyTwo" -> Value(Dec(42 * Unit))

\* The Evaluator an engine builds: the functions Map it shares with the
\* engine and what it reads of the configuration; `self` below is this record
EvaluatorOf(cfg, library) ==
    [strictMode |-> cfg.strictMode, maxRecursionDepth |-> cfg.maxRecursionDepth,
     functions |-> library]

\* a result or a throw, with this.recursionDepth at that moment
At(depth, r) == [ok |-> r.ok, value |-> r.value, error |-> r.error, depth |-> depth]

RECURSIVE evaluateNode(_, _, _, _)
RECURSIVE evaluateNodes(_, _, _, _, _, _)
RECURSIVE iterateItems(_, _, _, _, _, _, _, _)

\* node.elements.map / node.arguments.map(arg => this.evaluateNode(arg, context))
evaluateNodes(list, k, values, depth, variables, self) ==
    IF k > Len(list) THEN At(depth, Value(values))
    ELSE LET r == evaluateNode(list[k], depth, variables, self)
         IN  IF ~r.ok THEN r
             ELSE evaluateNodes(list, k + 1, Append(values, r.value), r.depth,
                                variables, self)

\* the for (const item of array) loop of evaluateSumWithExpression,
\* evaluateFilter and evaluateMap; acc is the running sum or the result list
iterateItems(kind, items, k, args, acc, depth, variables, self) ==
    IF k > Len(items) THEN At(depth, Value(IF kind = "SUM" THEN Dec(acc) ELSE Arr(acc)))
    \* args[1] is undefined when the call has one argument: node.type throws
    ELSE IF Len(args) < 2
    THEN At(depth + 1, Throw(IF depth + 1 > self.maxRecursionDepth THEN "MaxRecursion"
                             ELSE "TypeError"))
    ELSE LET item == items[k]
             r == evaluateNode(args[2], depth, MapSet(variables, "it", item), self)
         IN  IF ~r.ok THEN r
             ELSE iterateItems(kind, items, k + 1, args,
                               CASE kind = "SUM" ->
                                        IF isNumeric(r.value) THEN acc + r.value.v ELSE acc
                                 [] kind = "FILTER" ->
                                        IF toBool(r.value) THEN Append(acc, item) ELSE acc
                                 [] kind = "MAP" -> Append(acc, r.value),
                               r.depth, variables, self)

\* evaluateSumWithExpression, evaluateFilter, evaluateMap
evaluateIteration(kind, args, depth, variables, self) ==
    LET array == IF Len(args) = 0
                 THEN At(depth + 1, Throw(IF depth + 1 > self.maxRecursionDepth
                                          THEN "MaxRecursion" ELSE "TypeError"))
                 ELSE evaluateNode(args[1], depth, variables, self)
    IN  IF ~array.ok THEN array
        ELSE IF array.value.t # "array" THEN At(array.depth, Throw("Error"))
        ELSE iterateItems(kind, array.value.v, 1, args, IF kind = "SUM" THEN 0 ELSE <<>>,
                          array.depth, variables, self)

\* evaluateFunctionCall; node.name was upper-cased by the Parser, so
\* node.name.toUpperCase() is node.name
evaluateFunctionCall(node, depth, variables, self) ==
    LET fnName == node.name
        argc == Len(node.arguments)
    IN  IF fnName \notin DOMAIN self.functions THEN At(depth, Throw("UndefinedFunction"))
        ELSE LET fn == self.functions[fnName]
             IN  IF argc < fn.minArgs THEN At(depth, Throw("ArgumentCount"))
                 ELSE IF fn.maxArgs # -1 /\ argc > fn.maxArgs
                 THEN At(depth, Throw("ArgumentCount"))
                 ELSE IF fnName = "SUM" /\ argc = 2
                 THEN evaluateIteration("SUM", node.arguments, depth, variables, self)
                 ELSE IF fnName \in {"FILTER", "MAP"}
                 THEN evaluateIteration(fnName, node.arguments, depth, variables, self)
                 ELSE LET args == evaluateNodes(node.arguments, 1, <<>>, depth,
                                                variables, self)
                      IN  IF ~args.ok THEN args
                          ELSE At(args.depth,
                                  callImplementation(fn.implementation, args.value))

\* both operands evaluated before the operator is looked at
evaluateBinaryOperation_Eager(node, depth, variables, self) ==
    LET left == evaluateNode(node.left, depth, variables, self)
    IN  IF ~left.ok THEN left
        ELSE LET right == evaluateNode(node.right, left.depth, variables, self)
             IN  IF ~right.ok THEN right
                 ELSE At(right.depth,
                         CASE node.operator = "&&" ->
                                Value(Bool(toBool(left.value) /\ toBool(right.value)))
                           [] node.operator = "||" ->
                                Value(Bool(toBool(left.value) \/ toBool(right.value)))
                           [] node.operator = "*" -> multiply(left.value, right.value)
                           [] node.operator = "/" -> divide(left.value, right.value)
                           [] OTHER -> Throw("InvalidOperation"))

\* evaluateBinaryOperation: && and || short-circuit; of the other operators
\* the model's expressions use * and /
evaluateBinaryOperation(node, depth, variables, self) ==
    LET left == evaluateNode(node.left, depth, variables, self)
        right == evaluateNode(node.right, left.depth, variables, self)
    IN  IF ~left.ok THEN left
        ELSE IF node.operator = "&&"
        THEN IF ~toBool(left.value) THEN At(left.depth, Value(Bool(FALSE)))
             ELSE IF ~right.ok THEN right
             ELSE At(right.depth, Value(Bool(toBool(right.value))))
        ELSE IF node.operator = "||"
        THEN IF toBool(left.value) THEN At(left.depth, Value(Bool(TRUE)))
             ELSE IF ~right.ok THEN right
             ELSE At(right.depth, Value(Bool(toBool(right.value))))
        ELSE IF ~right.ok THEN right
        ELSE At(right.depth,
                CASE node.operator = "*" -> multiply(left.value, right.value)
                  [] node.operator = "/" -> divide(left.value, right.value)
                  [] OTHER -> Throw("InvalidOperation"))

\* evaluateConditional
evaluateConditional(node, depth, variables, self) ==
    LET condition == evaluateNode(node.condition, depth, variables, self)
    IN  IF ~condition.ok THEN condition
        ELSE IF toBool(condition.value)
        THEN evaluateNode(node.consequent, condition.depth, variables, self)
        ELSE evaluateNode(node.alternate, condition.depth, variables, self)

\* evaluateNode, entered with this.recursionDepth = depth; the node types no
\* evaluated expression of the model contains (unary operation, member and
\* index access) are not told apart from the default case
evaluateNode(node, depth, variables, self) ==
    IF depth + 1 > self.maxRecursionDepth THEN At(depth + 1, Throw("MaxRecursion"))
    ELSE CASE node.type = "DecimalLiteral" -> At(depth + 1, Value(Dec(node.value)))
           [] node.type = "NumberLiteral" -> At(depth + 1, Value(Num(node.value)))
           [] node.type = "StringLiteral" -> At(depth + 1, Value(StringValue(node.value)))
           [] node.type = "BooleanLiteral" -> At(depth + 1, Value(Bool(node.value)))
           [] node.type = "NullLiteral" -> At(depth + 1, Value(Null))
           [] node.type = "ArrayLiteral" ->
                 LET elements == evaluateNodes(node.elements, 1, <<>>, depth + 1,
                                               variables, self)
                 IN  IF ~elements.ok THEN elements
                     ELSE At(elements.depth, Value(Arr(elements.value)))
           [] node.type = "VariableReference" ->
                 At(depth + 1,
                    evaluateVariable(node.prefix, node.name, variables, self.strictMode))
           [] node.type = "BinaryOperation" ->
                 evaluateBinaryOperation(node, depth + 1, variables, self)
           [] node.type = "ConditionalExpression" ->
                 evaluateConditional(node, depth + 1, variables, self)
           [] node.type = "FunctionCall" ->
                 evaluateFunctionCall(node, depth + 1, variables, self)
           [] OTHER -> At(depth + 1, Throw("Error"))

\* Evaluator.evaluate: recursionDepth reset, then parse and evaluate inside
\* one try/catch; never throws
evaluatorEvaluate(expression, variables, self) ==
    LET envelope(r) ==
            IF r.ok THEN [value |-> r.value, success |-> TRUE, error |-> "none",
                          recursionDepth |-> r.depth]
            ELSE [value |-> Null, success |-> FALSE, error |-> r.error,
                  recursionDepth |-> r.depth]
        evaluateAst(p) ==
            IF ~p.ok THEN [value |-> Null, success |-> FALSE, error |-> p.error,
                           recursionDepth |-> 0]
            ELSE envelope(evaluateNode(p.ast, 0, variables, self))
    IN  evaluateAst(parserParse(expression))

----------------------------------------------------------------------------
(* FormulaEngine: private helpers                                          *)

Unset == "unset"
NoRounding == [mode |-> Unset, precision |-> 0]
NoOnError == [type |-> Unset, defaultValue |-> Undefined]
NoDependencies == [given |-> FALSE, list |-> <<>>]

convertValue(value) == IF value.t = "number" THEN Dec(value.v) ELSE value

\* normalizeContext: a fresh variables object when autoConvertFloats is on,
\* `{ ...context }` otherwise, which keeps the caller's variables object.
normalizeContext(variables, autoConvert) ==
    IF ~autoConvert THEN [variables |-> variables, sameObject |-> TRUE]
    ELSE [variables |-> [k \in DOMAIN variables |-> convertValue(variables[k])],
          sameObject |-> FALSE]

\* rounding left to the output stage: the value goes on unrounded
applyRounding_Postponed(value, rounding) == value

applyRounding(value, rounding) ==
    IF rounding.mode = "NONE" THEN value
    ELSE decimalRound(value, rounding.precision, rounding.mode)

\* SKIP falling through to the throwing default case
handleError_SkipThrows(formula, error) ==
    LET behavior == formula.onError
    IN  IF behavior.type = Unset THEN Value(Null)
        ELSE CASE behavior.type = "NULL" -> Value(Null)
               [] behavior.type = "ZERO" -> Value(Dec(0))
               [] behavior.type = "DEFAULT" ->
                     Value(Coalesce(Coalesce(behavior.defaultValue, formula.defaultValue), Null))
               [] OTHER -> Throw(error)

\* ZERO substituting null instead of Decimal 0
handleError_ZeroIsNull(formula, error) ==
    LET behavior == formula.onError
    IN  IF behavior.type = Unset THEN Value(Null)
        ELSE CASE behavior.type = "NULL" -> Value(Null)
               [] behavior.type = "ZERO" -> Value(Null)
               [] behavior.type = "DEFAULT" ->
                     Value(Coalesce(Coalesce(behavior.defaultValue, formula.defaultValue), Null))
               [] behavior.type = "SKIP" -> Value(Undefined)
               [] OTHER -> Throw(error)

\* handleError: the substituted value, or the rethrow of the error
handleError(formula, error) ==
    LET behavior == formula.onError
    IN  IF behavior.type = Unset THEN Value(Null)
        ELSE CASE behavior.type = "NULL" -> Value(Null)
               [] behavior.type = "ZERO" -> Value(Dec(0))
               [] behavior.type = "DEFAULT" ->
                     Value(Coalesce(Coalesce(behavior.defaultValue, formula.defaultValue), Null))
               [] behavior.type = "SKIP" -> Value(Undefined)
               [] OTHER -> Throw(error)

\* formulaMap.get(id): Map.set keeps the last definition of an id
formulaMapGet(fs, id) ==
    fs[CHOOSE i \in 1..Len(fs) : fs[i].id = id /\ \A j \in (i+1)..Len(fs) : fs[j].id # id]

\* One iteration of the for-loop of evaluateAll on `formula`: either the
\* result it records and the value it injects, or the error it lets escape.
evaluateStep(formula, variables, self) ==
    LET recorded(result, handled) ==
            IF ~handled.ok
            \* handleError threw inside the try; the catch block calls it again
            \* (formula.onError is set) and the second throw leaves evaluateAll
            THEN [throws |-> TRUE, error |-> handled.error,
                  entry |-> [value |-> Null, success |-> FALSE, error |-> handled.error]]
            ELSE [throws |-> FALSE, error |-> result.error,
                  entry |-> [value |-> handled.value, success |-> result.success,
                             error |-> result.error]]
        rounded(result) ==
            IF formula.rounding.mode # Unset /\ isDecimal(result.value)
            THEN applyRounding(result.value, formula.rounding)
            ELSE result.value
        handle(result) ==
            recorded(result,
                     IF ~result.success /\ formula.onError.type # Unset
                     THEN handleError(formula, result.error)
                     ELSE Value(rounded(result)))
    IN  handle(evaluatorEvaluate(formula.expression, variables, self))

\* lines 217-266 repeated over the evaluation order: the results Map when the
\* loop ends, or the error that leaves evaluateAll
RECURSIVE evaluateLoop(_, _, _, _, _, _)
evaluateLoop(fs, order, k, workingContext, resultMap, self) ==
    IF k > Len(order) THEN [kind |-> "resultSet", results |-> resultMap]
    ELSE LET recorded(step) ==
                 IF step.throws THEN [kind |-> "raised", results |-> <<>>]
                 ELSE evaluateLoop(fs, order, k + 1,
                                   MapSet(workingContext, order[k], step.entry.value),
                                   MapSet(resultMap, order[k], step.entry), self)
         IN  recorded(evaluateStep(formulaMapGet(fs, order[k]), workingContext, self))

\* evaluateAll(formulas, context) as one call: what it returns or raises
evaluateAll(fs, variables, cfg, library) ==
    LET ordered(o) ==
            IF ~o.ok THEN [kind |-> "resultSet", results |-> <<>>]
            ELSE evaluateLoop(fs, o.order, 1,
                              normalizeContext(variables, cfg.autoConvertFloats).variables,
                              <<>>, EvaluatorOf(cfg, library))
    IN  ordered(getEvaluationOrder(fs))

----------------------------------------------------------------------------
(* Inputs: the formulas, configurations and context the model explores.    *)

Formula(id, expression, dependencies, onError, defaultValue, rounding) ==
    [id |-> id, expression |-> expression, dependencies |-> dependencies,
     onError |-> onError, defaultValue |-> defaultValue, rounding |-> rounding]

OnError(type) == [type |-> type, defaultValue |-> Undefined]
HalfUp2 == [mode |-> "HALF_UP", precision |-> 2]

\* a = 19.125, with and without a rounding of its own
LiteralFormulas ==
    {Formula("a", "19.125", NoDependencies, NoOnError, Undefined, r) :
        r \in {NoRounding, HalfUp2, [mode |-> "NONE", precision |-> 2]}}

\* a = $x / $y, which fails with DivisionByZero, under every error policy
FailingFormulas ==
    {Formula("a", "$x / $y", NoDependencies, e, Undefined, NoRounding) :
        e \in {NoOnError, OnError("THROW"), OnError("NULL"), OnError("ZERO"),
               OnError("SKIP"), OnError("DEFAULT")}}
    \cup {Formula("a", "$x / $y", NoDependencies, OnError("DEFAULT"), Dec(19125), HalfUp2),
          Formula("a", "$x / $y", NoDependencies,
                  [type |-> "DEFAULT", defaultValue |-> Dec(9 * Unit)], Dec(19125), NoRounding)}

\* dependents, a two-cycle, a self-cycle, an explicit (empty) dependency
\* list and an expression with a syntax error
DependentFormulas ==
    {Formula("b", "$a * 2", NoDependencies, NoOnError, Undefined, NoRounding),
     Formula("c", "$b * 2", NoDependencies, NoOnError, Undefined, NoRounding),
     Formula("a", "$b * 2", NoDependencies, NoOnError, Undefined, NoRounding),
     Formula("c", "$c * 2", NoDependencies, OnError("ZERO"), Undefined, NoRounding),
     Formula("b", "$a * 2", [given |-> TRUE, list |-> <<>>], NoOnError, Undefined, NoRounding),
     Formula("c", "$b *", NoDependencies, OnError("NULL"), Undefined, NoRounding)}

FormulaPool == LiteralFormulas \cup FailingFormulas \cup DependentFormulas

FormulaLists == UNION {[1..n -> FormulaPool] : n \in 1..MaxFormulas}

DefaultConfig ==
    [enableCache |-> TRUE, maxCacheSize |-> 1000, strictMode |-> TRUE,
     autoConvertFloats |-> TRUE, maxExpressionLength |-> 10000,
     maxRecursionDepth |-> 100,
     defaultRounding |-> NoRounding, defaultErrorBehavior |-> NoOnError]

Configs ==
    {DefaultConfig,
     [DefaultConfig EXCEPT !.defaultRounding = HalfUp2],
     [DefaultConfig EXCEPT !.strictMode = FALSE],
     [DefaultConfig EXCEPT !.autoConvertFloats = FALSE]}

\* the caller's context: { variables: { x: 10, y: 0 } }
CallerVariables == [k \in {"x", "y"} |-> IF k = "x" THEN Num(10 * Unit) ELSE Num(0)]

NoReturn ==
    [kind |-> "none", results |-> <<>>, success |-> FALSE, errors |-> <<>>,
     evaluationOrder |-> <<>>]

----------------------------------------------------------------------------
(* FormulaEngine: the caches and the single-expression entry points.       *)
(* A cache is a JS Map: a sequence of entries in insertion order.          *)

MaxCacheSize == 3    \* largest maxCacheSize the engine is configured with
MaxCalls == 4        \* calls made on one engine

CacheKeys(cache) == [i \in 1..Len(cache) |-> cache[i].key]
\* a lookup that never finds the key
CacheHas_Never(cache, key) == FALSE

CacheHas(cache, key) == \E i \in 1..Len(cache) : cache[i].key = key
\* a lookup that returns the oldest entry's value, whatever the key
CacheGet_Oldest(cache, key) == cache[1].value

CacheGet(cache, key) == cache[CHOOSE i \in 1..Len(cache) : cache[i].key = key].value

\* Map.prototype.set: a new key goes last, an existing key keeps its place
CacheSet(cache, key, value) ==
    IF CacheHas(cache, key)
    THEN [i \in 1..Len(cache) |->
             IF cache[i].key = key THEN [key |-> key, value |-> value] ELSE cache[i]]
    ELSE Append(cache, [key |-> key, value |-> value])

\* Map.prototype.delete for every key of `keys`
CacheDelete(cache, keys) == SelectSeq(cache, LAMBDA entry : entry.key \notin keys)

\* Math.ceil(maxSize * 0.1); on the integers 0..2000 the double product
\* rounds to the same integer as the exact tenth
ceilTenth(maxSize) == (maxSize + 9) \div 10

\* eviction of the newest entries instead of the oldest
maybeEvictCache_Newest(ast, deps, maxSize) ==
    IF Len(ast) >= maxSize
    THEN LET toRemove == ceilTenth(maxSize)
             first == IF Len(ast) > toRemove THEN Len(ast) - toRemove + 1 ELSE 1
             keys == {ast[i].key : i \in first..Len(ast)}
         IN  [astCache |-> CacheDelete(ast, keys),
              dependencyCache |-> CacheDelete(deps, keys)]
    ELSE [astCache |-> ast, dependencyCache |-> deps]

\* maybeEvictCache: the two caches after it
maybeEvictCache(ast, deps, maxSize) ==
    IF Len(ast) >= maxSize
    THEN LET toRemove == ceilTenth(maxSize)
             keys == {ast[i].key : i \in 1..(IF toRemove < Len(ast) THEN toRemove
                                             ELSE Len(ast))}
         IN  [astCache |-> CacheDelete(ast, keys),
              dependencyCache |-> CacheDelete(deps, keys)]
    ELSE [astCache |-> ast, dependencyCache |-> deps]

\* checkExpressionLength: TRUE when it throws MaxExpressionLengthError
checkExpressionLength(expression, cfg) == Len(expression) > cfg.maxExpressionLength

\* the engine's caches and counters as one value, for the methods that call
\* this.parse themselves
EngineState == [astCache |-> astCache, dependencyCache |-> dependencyCache,
                cacheHits |-> cacheHits, cacheMisses |-> cacheMisses]

\* this.parse(expression) as a callee, lines 67-87: how it ended and the
\* caches and counters it leaves
engineParse(engine, expression, cfg) ==
    LET ended(threw, error, hit, ast, after) ==
            [threw |-> threw, error |-> error, hit |-> hit, ast |-> ast,
             engine |-> after]
        counted == IF cfg.enableCache
                   THEN [engine EXCEPT !.cacheMisses = @ + 1] ELSE engine
        missed(p, evicted) ==
            IF ~p.ok THEN ended(TRUE, p.error, FALSE, NullLiteral, counted)
            ELSE ended(FALSE, "none", FALSE, p.ast,
                       IF cfg.enableCache
                       THEN [counted EXCEPT
                               !.astCache = CacheSet(evicted.astCache, expression, p.ast),
                               !.dependencyCache = evicted.dependencyCache]
                       ELSE counted)
    IN  IF checkExpressionLength(expression, cfg)
        THEN ended(TRUE, "MaxExpressionLength", FALSE, NullLiteral, engine)
        ELSE IF cfg.enableCache /\ CacheHas(engine.astCache, expression)
        THEN ended(FALSE, "none", TRUE, CacheGet(engine.astCache, expression),
                   [engine EXCEPT !.cacheHits = @ + 1])
        ELSE missed(parserParse(expression),
                    maybeEvictCache(engine.astCache, engine.dependencyCache,
                                    cfg.maxCacheSize))

\* what a call on the engine did: whether it threw and what, the expressions
\* it handed to a Parser, the AST cache keys it evicted, what it returned, and
\* the Evaluator's recursionDepth after it
Call(op, expression) ==
    [op |-> op, expression |-> expression, threw |-> FALSE, error |-> "none",
     parsed |-> <<>>, hit |-> FALSE, evicted |-> <<>>, ast |-> NullLiteral,
     deps |-> <<>>, value |-> Null, success |-> FALSE, recursionDepth |-> 0]

NoCall == Call("none", "")

\* the configurations of the engines whose caches and guards are explored
EngineConfigs ==
    {[DefaultConfig EXCEPT !.maxCacheSize = m] : m \in 0..MaxCacheSize}
    \cup {[DefaultConfig EXCEPT !.maxCacheSize = 2, !.maxExpressionLength = 6],
          [DefaultConfig EXCEPT !.enableCache = FALSE]}

EngineIdle ==
    /\ astCache = <<>>
    /\ dependencyCache = <<>>
    /\ cacheHits = 0
    /\ cacheMisses = 0
    /\ functions = BuiltInFunctions
    /\ lastCall = NoCall
    /\ calls = 0

NoOutcome == [stage |-> "none", ok |-> FALSE, error |-> "none", tokens |-> <<>>,
              ast |-> NullLiteral, deps |-> <<>>]

LexerIdle ==
    /\ lexerInput = <<>>
    /\ outcome = NoOutcome

----------------------------------------------------------------------------
(* Specification SpecGraph: a client of DependencyGraph.                   *)

G == [nodes |-> nodes, edges |-> edges]

BatchIdle ==
    /\ formulas = <<>>
    /\ context = CallerVariables
    /\ working = <<>>
    /\ aliased = FALSE
    /\ results = <<>>
    /\ errors = <<>>
    /\ evaluationOrder = <<>>
    /\ idx = 0
    /\ evaluated = <<>>
    /\ returned = NoReturn

InitGraph ==
    /\ nodes = <<>>
    /\ edges = <<>>
    /\ sortResult = NoSort
    /\ pc = "graph"
    /\ config = DefaultConfig
    /\ BatchIdle
    /\ EngineIdle
    /\ LexerIdle

AddNode ==
    /\ pc = "graph"
    /\ \E id \in Ids :
        LET g == addNode(G, id)
        IN  nodes' = g.nodes /\ edges' = g.edges
    /\ sortResult' = NoSort
    /\ UNCHANGED <<batchVars, engineVars, lexerVars>>

AddEdge ==
    /\ pc = "graph"
    /\ EdgeCount(G) < MaxEdges
    /\ \E source \in Ids, target \in Ids :
        LET g == addEdge(G, source, target)
        IN  nodes' = g.nodes /\ edges' = g.edges
    /\ sortResult' = NoSort
    /\ UNCHANGED <<batchVars, engineVars, lexerVars>>

TopologicalSort ==
    /\ pc = "graph"
    /\ sortResult' = topologicalSort(G)
    /\ UNCHANGED <<nodes, edges>>
    /\ UNCHANGED <<batchVars, engineVars, lexerVars>>

NextGraph == AddNode \/ AddEdge \/ TopologicalSort

SpecGraph == InitGraph /\ [][NextGraph]_vars

----------------------------------------------------------------------------
(* Specification Spec: one evaluateAll(formulas, context) call.            *)

Init ==
    /\ nodes = <<>>
    /\ edges = <<>>
    /\ sortResult = NoSort
    /\ formulas \in FormulaLists
    /\ config \in Configs
    /\ context = CallerVariables
    /\ working = <<>>
    /\ aliased = FALSE
    /\ results = <<>>
    /\ errors = <<>>
    /\ evaluationOrder = <<>>
    /\ idx = 0
    /\ evaluated = <<>>
    /\ pc = "start"
    /\ returned = NoReturn
    /\ EngineIdle
    /\ LexerIdle

\* lines 190-215: getEvaluationOrder, formulaMap, normalizeContext
GetOrder ==
    /\ pc = "start"
    /\ LET n == normalizeContext(context, config.autoConvertFloats)
           ordered(o) ==
               IF ~o.ok
               THEN /\ pc' = "returned"
                    /\ returned' = [kind |-> "resultSet", results |-> results,
                                    success |-> FALSE, errors |-> <<o.error>>,
                                    evaluationOrder |-> <<>>]
                    /\ UNCHANGED <<evaluationOrder, working, aliased, idx>>
               ELSE /\ pc' = "loop"
                    /\ evaluationOrder' = o.order
                    /\ working' = n.variables
                    /\ aliased' = n.sameObject
                    /\ idx' = 1
                    /\ UNCHANGED returned
       IN  ordered(getEvaluationOrder(formulas))
    /\ UNCHANGED <<graphVars, engineVars, lexerVars, formulas, config, context,
                   results, errors, evaluated>>

\* lines 217-266: one iteration of the for-loop
EvaluateFormula ==
    /\ pc = "loop"
    /\ idx <= Len(evaluationOrder)
    /\ LET formulaId == evaluationOrder[idx]
           record(step) ==
               /\ evaluated' = Append(evaluated, formulaId)
               /\ IF step.throws
                  THEN /\ pc' = "thrown"
                       /\ returned' = [kind |-> "raised", results |-> <<>>,
                                       success |-> FALSE, errors |-> <<step.error>>,
                                       evaluationOrder |-> <<>>]
                       /\ UNCHANGED <<results, working, context, errors, idx>>
                  ELSE /\ results' = MapSet(results, formulaId, step.entry)
                       /\ working' = MapSet(working, formulaId, step.entry.value)
                       /\ context' = IF aliased THEN working' ELSE context
                       /\ errors' = IF step.entry.success THEN errors
                                    ELSE Append(errors, step.entry.error)
                       /\ idx' = idx + 1
                       /\ UNCHANGED <<pc, returned>>
       IN  record(evaluateStep(formulaMapGet(formulas, formulaId), working,
                               EvaluatorOf(config, functions)))
    /\ UNCHANGED <<graphVars, engineVars, lexerVars, formulas, config, aliased,
                   evaluationOrder>>

\* success reported without looking at the collected errors
Return_SuccessAlways ==
    /\ pc = "loop"
    /\ idx > Len(evaluationOrder)
    /\ pc' = "returned"
    /\ returned' = [kind |-> "resultSet", results |-> results,
                    success |-> TRUE, errors |-> errors,
                    evaluationOrder |-> evaluationOrder]
    /\ UNCHANGED <<graphVars, engineVars, lexerVars, formulas, config, context,
                   working, aliased, results,
                   errors, evaluationOrder, idx, evaluated>>

\* lines 268-274
Return ==
    /\ pc = "loop"
    /\ idx > Len(evaluationOrder)
    /\ pc' = "returned"
    /\ returned' = [kind |-> "resultSet", results |-> results,
                    success |-> (Len(errors) = 0), errors |-> errors,
                    evaluationOrder |-> evaluationOrder]
    /\ UNCHANGED <<graphVars, engineVars, lexerVars, formulas, config, context,
                   working, aliased, results,
                   errors, evaluationOrder, idx, evaluated>>

Next == GetOrder \/ EvaluateFormula \/ Return

Spec == Init /\ [][Next]_vars

----------------------------------------------------------------------------
(* Specification SpecEngine: a client calls parse, extractDependencies,    *)
(* evaluate and clearCache on one FormulaEngine.                           *)

InitEngine ==
    /\ nodes = <<>>
    /\ edges = <<>>
    /\ sortResult = NoSort
    /\ pc = "engine"
    /\ config \in EngineConfigs
    /\ BatchIdle
    /\ EngineIdle
    /\ LexerIdle

\* parse(expression), lines 67-87
Parse ==
    /\ pc = "engine"
    /\ calls < MaxCalls
    /\ \E expression \in Expressions :
        LET call == Call("parse", expression)
            p == parserParse(expression)
            evicted == maybeEvictCache(astCache, dependencyCache, config.maxCacheSize)
        IN  IF checkExpressionLength(expression, config)
            THEN /\ lastCall' = [call EXCEPT !.threw = TRUE, !.error = "MaxExpressionLength"]
                 /\ UNCHANGED <<astCache, dependencyCache, cacheHits, cacheMisses>>
            ELSE IF config.enableCache /\ CacheHas(astCache, expression)
            THEN /\ cacheHits' = cacheHits + 1
                 /\ lastCall' = [call EXCEPT !.hit = TRUE,
                                             !.ast = CacheGet(astCache, expression)]
                 /\ UNCHANGED <<astCache, dependencyCache, cacheMisses>>
            ELSE /\ cacheMisses' = IF config.enableCache THEN cacheMisses + 1
                                   ELSE cacheMisses
                 /\ UNCHANGED cacheHits
                 /\ IF ~p.ok
                    THEN /\ lastCall' = [call EXCEPT !.threw = TRUE, !.error = p.error,
                                                     !.parsed = <<expression>>]
                         /\ UNCHANGED <<astCache, dependencyCache>>
                    ELSE /\ lastCall' =
                              [call EXCEPT
                                 !.parsed = <<expression>>,
                                 !.ast = p.ast,
                                 !.evicted =
                                    IF config.enableCache
                                    THEN SelectSeq(CacheKeys(astCache),
                                                   LAMBDA k : ~CacheHas(evicted.astCache, k))
                                    ELSE <<>>]
                         /\ IF config.enableCache
                            THEN /\ astCache' = CacheSet(evicted.astCache, expression, p.ast)
                                 /\ dependencyCache' = evicted.dependencyCache
                            ELSE UNCHANGED <<astCache, dependencyCache>>
    /\ calls' = calls + 1
    /\ UNCHANGED <<graphVars, batchVars, lexerVars, functions>>

\* extractDependencies(expression), lines 92-107
ExtractDependencies ==
    /\ pc = "engine"
    /\ calls < MaxCalls
    /\ \E expression \in Expressions :
        LET call == Call("extractDependencies", expression)
            ex == extract(expression)
        IN  IF config.enableCache /\ CacheHas(dependencyCache, expression)
            THEN /\ lastCall' = [call EXCEPT !.hit = TRUE,
                                             !.deps = CacheGet(dependencyCache, expression)]
                 /\ UNCHANGED dependencyCache
            ELSE IF ~ex.ok
            THEN /\ lastCall' = [call EXCEPT !.threw = TRUE, !.error = ex.error,
                                             !.parsed = <<expression>>]
                 /\ UNCHANGED dependencyCache
            ELSE /\ lastCall' = [call EXCEPT !.parsed = <<expression>>, !.deps = ex.deps]
                 /\ dependencyCache' = IF config.enableCache
                                       THEN CacheSet(dependencyCache, expression, ex.deps)
                                       ELSE dependencyCache
    /\ calls' = calls + 1
    /\ UNCHANGED <<graphVars, batchVars, lexerVars, functions, astCache, cacheHits,
                   cacheMisses>>

\* evaluate(expression, context), lines 177-181
engineEvaluate(expression) ==
    LET call == Call("evaluate", expression)
        normalizedContext == normalizeContext(context, config.autoConvertFloats)
        result == evaluatorEvaluate(expression, normalizedContext.variables,
                                    EvaluatorOf(config, functions))
    IN  /\ IF checkExpressionLength(expression, config)
           THEN lastCall' = [call EXCEPT !.threw = TRUE, !.error = "MaxExpressionLength"]
           ELSE lastCall' = [call EXCEPT !.parsed = <<expression>>,
                                         !.value = result.value,
                                         !.success = result.success,
                                         !.error = result.error,
                                         !.recursionDepth = result.recursionDepth]
        /\ calls' = calls + 1
        /\ UNCHANGED <<graphVars, batchVars, lexerVars, functions, astCache,
                       dependencyCache, cacheHits, cacheMisses>>

Evaluate ==
    /\ pc = "engine"
    /\ calls < MaxCalls
    /\ \E expression \in Expressions : engineEvaluate(expression)

\* clearCache(), lines 304-309
ClearCache ==
    /\ pc = "engine"
    /\ calls < MaxCalls
    /\ astCache' = <<>>
    /\ dependencyCache' = <<>>
    /\ cacheHits' = 0
    /\ cacheMisses' = 0
    /\ lastCall' = Call("clearCache", "")
    /\ calls' = calls + 1
    /\ UNCHANGED <<graphVars, batchVars, lexerVars, functions>>

NextEngine == Parse \/ ExtractDependencies \/ Evaluate \/ ClearCache

SpecEngine == InitEngine /\ [][NextEngine]_vars

----------------------------------------------------------------------------
(* Specification SpecFunctions: a client registers functions on one        *)
(* FormulaEngine and evaluates expressions that call the library.          *)

InitFunctions ==
    /\ nodes = <<>>
    /\ edges = <<>>
    /\ sortResult = NoSort
    /\ pc = "functions"
    /\ config = DefaultConfig
    /\ BatchIdle
    /\ EngineIdle
    /\ LexerIdle

\* registerFunction(definition), lines 280-283
RegisterFunction ==
    /\ pc = "functions"
    /\ calls < MaxCalls
    /\ \E definition \in CustomDefinitions :
        LET name == Str(toUpperCase(Chars(definition.name)))
        IN  /\ functions' = MapSet(functions, name, definition)
            /\ lastCall' = Call("registerFunction", name)
    /\ calls' = calls + 1
    /\ UNCHANGED <<graphVars, batchVars, lexerVars, astCache, dependencyCache,
                   cacheHits, cacheMisses>>

\* evaluate(expression, context) on an expression that calls a function
EvaluateCall ==
    /\ pc = "functions"
    /\ calls < MaxCalls
    /\ \E expression \in CallExpressions : engineEvaluate(expression)

NextFunctions == RegisterFunction \/ EvaluateCall

SpecFunctions == InitFunctions /\ [][NextFunctions]_vars

----------------------------------------------------------------------------
(* Specification SpecParse: a text is typed one character at a time and    *)
(* handed to Lexer.tokenize and to Parser.parse.                           *)

MaxChars == 5

\* the characters typed: those of a small object literal
Alphabet == {"{", "}", "k", ":", "1"}

\* LOOKUP($r, {k: 1}, "k"), an object literal as the criteria of LOOKUP
LookupExample ==
    <<"L", "O", "O", "K", "U", "P", "(", "$", "r", ",", " ", "{", "k", ":", " ", "1",
      "}", ",", " ", "\"", "k", "\"", ")">>

InitParse ==
    /\ nodes = <<>>
    /\ edges = <<>>
    /\ sortResult = NoSort
    /\ pc = "lexer"
    /\ config = DefaultConfig
    /\ BatchIdle
    /\ EngineIdle
    /\ lexerInput \in {<<>>, LookupExample}
    /\ outcome = NoOutcome

\* one more character of the text
Type ==
    /\ pc = "lexer"
    /\ Len(lexerInput) < MaxChars
    /\ \E c \in Alphabet : lexerInput' = Append(lexerInput, c)
    /\ outcome' = NoOutcome
    /\ UNCHANGED <<graphVars, batchVars, engineVars>>

\* new Lexer(source).tokenize()
Tokenize ==
    /\ pc = "lexer"
    /\ LET lexed == tokenize(lexerInput)
       IN  outcome' = [stage |-> "tokenized", ok |-> lexed.ok, error |-> lexed.error,
                       tokens |-> lexed.tokens, ast |-> NullLiteral, deps |-> <<>>]
    /\ UNCHANGED <<graphVars, batchVars, engineVars, lexerInput>>

\* new Parser().parse(source)
ParseInput ==
    /\ pc = "lexer"
    /\ LET p == parse(lexerInput)
       IN  outcome' = [stage |-> "parsed", ok |-> p.ok, error |-> p.error,
                       tokens |-> <<>>, ast |-> p.ast, deps |-> <<>>]
    /\ UNCHANGED <<graphVars, batchVars, engineVars, lexerInput>>

NextParse == Type \/ Tokenize \/ ParseInput

SpecParse == InitParse /\ [][NextParse]_vars

----------------------------------------------------------------------------
(* Specification SpecEvaluate: a client evaluates expressions on engines   *)
(* in strict and lenient mode and with a small maxRecursionDepth.          *)

EvaluatorConfigs ==
    {DefaultConfig,
     [DefaultConfig EXCEPT !.strictMode = FALSE],
     [DefaultConfig EXCEPT !.maxRecursionDepth = 3],
     [DefaultConfig EXCEPT !.maxRecursionDepth = 4]}

InitEvaluate ==
    /\ nodes = <<>>
    /\ edges = <<>>
    /\ sortResult = NoSort
    /\ pc = "evaluator"
    /\ config \in EvaluatorConfigs
    /\ BatchIdle
    /\ EngineIdle
    /\ LexerIdle

\* evaluate(expression, context) with context.variables = { x: 10, y: 0 }
EvaluateExpression ==
    /\ pc = "evaluator"
    /\ calls < MaxCalls
    /\ \E expression \in EvaluatedExpressions : engineEvaluate(expression)

NextEvaluate == EvaluateExpression

SpecEvaluate == InitEvaluate /\ [][NextEvaluate]_vars

----------------------------------------------------------------------------
(* Specification SpecExtract: a DependencyExtractor is given an expression *)
(* text: the beginning of an expression followed by a few more characters. *)

MaxTyped == 4

ExtractAlphabet == {"$", "@", "b", ".", "[", "]", ")"}

\* `$x.a[`, `$x[$y]`, `F(@c ? [-$y] : ` and the empty beginning
Beginnings ==
    {<<>>,
     <<"$", "x", ".", "a", "[">>,
     <<"$", "x", "[", "$", "y", "]">>,
     <<"F", "(", "@", "c", " ", "?", " ", "[", "-", "$", "y", "]", " ", ":", " ">>}

ExtractTexts ==
    {beginning \o rest :
        beginning \in Beginnings,
        rest \in UNION {[1..n -> ExtractAlphabet] : n \in 0..MaxTyped}}

InitExtract ==
    /\ nodes = <<>>
    /\ edges = <<>>
    /\ sortResult = NoSort
    /\ pc = "extractor"
    /\ config = DefaultConfig
    /\ BatchIdle
    /\ EngineIdle
    /\ lexerInput \in ExtractTexts
    /\ outcome = NoOutcome

\* new DependencyExtractor().extract(source), part_000 lines 15-18
ExtractInput ==
    /\ pc = "extractor"
    /\ outcome.stage = "none"
    /\ LET extracted(p) ==
               outcome' = [stage |-> "extracted", ok |-> p.ok, error |-> p.error,
                           tokens |-> <<>>, ast |-> p.ast,
                           deps |-> IF p.ok THEN extractFromNode(p.ast) ELSE <<>>]
       IN  extracted(parse(lexerInput))
    /\ UNCHANGED <<graphVars, batchVars, engineVars, lexerInput>>

NextExtract == ExtractInput

SpecExtract == InitExtract /\ [][NextExtract]_vars

----------------------------------------------------------------------------
(* Specification SpecValidate: one FormulaEngine.validate(formulas) call.  *)

\* an entry of ValidationResult.errors: the error class and what it is about
ErrorAt(error, at) == [error |-> error, at |-> at]

\* lines 130-137: a DuplicateFormulaError for every id seen before
duplicateErrors(fs) ==
    LET repeated == SelectSeq([i \in 1..Len(fs) |-> i],
                              LAMBDA i : \E j \in 1..(i - 1) : fs[j].id = fs[i].id)
    IN  [k \in 1..Len(repeated) |-> ErrorAt("DuplicateFormula", fs[repeated[k]].id)]

\* lines 139-150: this.parse on every expression, each in its own try/catch
RECURSIVE parseAll(_, _, _, _, _)
parseAll(fs, k, engine, errs, cfg) ==
    IF k > Len(fs) THEN [engine |-> engine, errors |-> errs]
    ELSE LET next(r) ==
                 parseAll(fs, k + 1, r.engine,
                          IF r.threw THEN Append(errs, ErrorAt(r.error, fs[k].expression))
                          ELSE errs,
                          cfg)
         IN  next(engineParse(engine, fs[k].expression, cfg))

\* validate(formulas), lines 126-172: the ValidationResult and the engine
\* state it leaves
validate(fs, engine, cfg) ==
    LET result(parsed, errs, graph, order) ==
            [valid |-> Len(errs) = 0, errors |-> errs, dependencyGraph |-> graph,
             evaluationOrder |-> order, engine |-> parsed.engine]
        sorted(parsed, b, s) ==
            IF ~s.ok
            THEN result(parsed, Append(parsed.errors, ErrorAt(s.error, s.cycle)),
                        b.graph, <<>>)
            ELSE result(parsed, parsed.errors, b.graph, s.order)
        built(parsed, b) ==
            IF ~b.ok
            THEN result(parsed, Append(parsed.errors, ErrorAt(b.error, "build")),
                        EmptyGraph, <<>>)
            ELSE sorted(parsed, b, topologicalSort(b.graph))
        graphOf(parsed) == built(parsed, build(fs))
    IN  graphOf(parseAll(fs, 1, engine, duplicateErrors(fs), cfg))

\* explicit dependency lists: one that differs from the variables of the
\* expression, one that names no formula on an expression that does not parse
ExplicitFormulas ==
    {Formula("a", "$x / $y", [given |-> TRUE, list |-> <<"b", "c">>], NoOnError,
             Undefined, NoRounding),
     Formula("c", "$b *", [given |-> TRUE, list |-> <<"zz">>], NoOnError,
             Undefined, NoRounding)}

ValidatedLists ==
    UNION {[1..n -> DependentFormulas \cup ExplicitFormulas
                    \cup {Formula("a", "19.125", NoDependencies, NoOnError,
                                  Undefined, NoRounding)}] :
           n \in 1..MaxFormulas}

InitValidate ==
    /\ nodes = <<>>
    /\ edges = <<>>
    /\ sortResult = NoSort
    /\ formulas \in ValidatedLists
    /\ config \in {DefaultConfig, [DefaultConfig EXCEPT !.enableCache = FALSE]}
    /\ context = CallerVariables
    /\ working = <<>>
    /\ aliased = FALSE
    /\ results = <<>>
    /\ errors = <<>>
    /\ evaluationOrder = <<>>
    /\ idx = 0
    /\ evaluated = <<>>
    /\ pc = "validate"
    /\ returned = NoReturn
    /\ EngineIdle
    /\ LexerIdle

\* the client calls validate(formulas) and receives the ValidationResult
Validate ==
    /\ pc = "validate"
    /\ LET receive(v) ==
               /\ returned' = [kind |-> "validation", results |-> <<>>,
                               success |-> v.valid, errors |-> v.errors,
                               evaluationOrder |-> v.evaluationOrder]
               /\ nodes' = v.dependencyGraph.nodes
               /\ edges' = v.dependencyGraph.edges
               /\ astCache' = v.engine.astCache
               /\ dependencyCache' = v.engine.dependencyCache
               /\ cacheHits' = v.engine.cacheHits
               /\ cacheMisses' = v.engine.cacheMisses
       IN  receive(validate(formulas, EngineState, config))
    /\ pc' = "validated"
    /\ lastCall' = Call("validate", "")
    /\ calls' = calls + 1
    /\ UNCHANGED <<sortResult, formulas, config, context, working, aliased, results,
                   errors, evaluationOrder, idx, evaluated, functions, lexerVars>>

NextValidate == Validate

SpecValidate == InitValidate /\ [][NextValidate]_vars

----------------------------------------------------------------------------
(* Properties of DependencyGraph, checked under SpecGraph.                 *)

SortCalled == sortResult.error # "not-called"

\* C2: on an acyclic graph topologicalSort returns every node exactly once,
\* and for every edge a -> b (a depends on b) b comes before a.
C2_TopologicalOrder ==
    (SortCalled /\ ~HasCycle(G)) =>
        /\ sortResult.ok
        /\ Len(sortResult.order) = Len(nodes)
        /\ Range(sortResult.order) = Range(nodes)
        /\ \A a \in Range(nodes), b \in Range(nodes) :
              IsEdge(G, a, b) =>
                  IndexOf(sortResult.order, b) < IndexOf(sortResult.order, a)

\* a sorted acyclic graph of three nodes whose order is not the insertion order
C2_Witness ==
    /\ sortResult.ok
    /\ Len(nodes) = 3
    /\ EdgeCount(G) >= 3
    /\ sortResult.order # nodes

\* C3: on a graph with a cycle (a self-edge included) topologicalSort throws
\* CircularDependency with a non-empty cycle list whose first and last elements
\* are equal and whose consecutive pairs are edges of the graph.
C3_CycleReported ==
    (SortCalled /\ HasCycle(G)) =>
        /\ ~sortResult.ok
        /\ sortResult.error = "CircularDependency"
        /\ Len(sortResult.cycle) >= 1
        /\ sortResult.cycle[1] = sortResult.cycle[Len(sortResult.cycle)]
        /\ \A i \in 1..(Len(sortResult.cycle) - 1) :
              IsEdge(G, sortResult.cycle[i], sortResult.cycle[i + 1])

\* a three-node cycle was reported
C3_Witness ==
    /\ sortResult.error = "CircularDependency"
    /\ Len(sortResult.cycle) = 4

----------------------------------------------------------------------------
(* Properties of evaluateAll, checked under Spec.                          *)

Built == build(formulas)
OrderOk == getEvaluationOrder(formulas).ok
FormulaOf(id) == formulaMapGet(formulas, id)
HasDuplicateIds == \E i, j \in 1..Len(formulas) : i # j /\ formulas[i].id = formulas[j].id
Finished == pc \in {"returned", "thrown"}

\* C1: formulas are evaluated strictly in evaluationOrder, and when a formula
\* is about to be evaluated every formula it depends on has been evaluated
\* and its value is in the working context under its id.
C1_EvaluatedInDependencyOrder ==
    /\ Len(evaluated) <= Len(evaluationOrder)
    /\ evaluated = SubSeq(evaluationOrder, 1, Len(evaluated))
    /\ (pc = "loop" /\ idx <= Len(evaluationOrder)) =>
          /\ Len(evaluated) = idx - 1
          /\ \A d \in Range(Built.graph.edges[evaluationOrder[idx]]) :
                /\ d \in Range(evaluated)
                /\ d \in DOMAIN working
                /\ d \in DOMAIN results
                /\ working[d] = results[d].value

\* c is listed first, depends on b which depends on a, and is evaluated last
C1_Witness ==
    /\ pc = "loop"
    /\ idx = 3
    /\ evaluationOrder = <<"a", "b", "c">>
    /\ formulas[1].id = "c"
    /\ formulas[3].id = "a"
    /\ Range(Built.graph.edges["c"]) = {"b"}

C5_DefaultRoundingApplied ==
    (/\ config.defaultRounding = HalfUp2
     /\ \A i \in 1..Len(formulas) : formulas[i].rounding = NoRounding) =>
        /\ \A id \in DOMAIN results :
              (results[id].success /\ isDecimal(results[id].value)) =>
                  /\ toDecimalPlaces(results[id].value.v, 2, "HALF_UP") = results[id].value.v
                  /\ working[id] = results[id].value
        /\ (/\ pc = "returned"
            /\ Len(formulas) = 2
            /\ formulas[1].expression = "19.125"
            /\ formulas[2].expression = "$a * 2") =>
               /\ returned.results["a"].value = Dec(19130)
               /\ returned.results["b"].value = Dec(38260)

\* C6: a formula's own rounding (mode other than NONE) is applied to its
\* Decimal value before the value is injected, so results and the working
\* context hold the same rounded value: a = 19.125 with {HALF_UP, 2} and an
\* unrounded b = $a * 2 give a = 19.13 and b = 38.26.
C6_OwnRoundingBeforeInjection ==
    /\ \A id \in DOMAIN results :
          LET f == FormulaOf(id)
          IN  (/\ f.rounding.mode \notin {Unset, "NONE"}
               /\ results[id].success
               /\ isDecimal(results[id].value)) =>
                  /\ toDecimalPlaces(results[id].value.v, f.rounding.precision,
                                     f.rounding.mode) = results[id].value.v
                  /\ working[id] = results[id].value
    /\ (/\ pc = "returned"
        /\ {"a", "b"} \subseteq DOMAIN returned.results
        /\ FormulaOf("a").expression = "19.125"
        /\ FormulaOf("a").rounding = HalfUp2
        /\ FormulaOf("b").rounding = NoRounding
        /\ Range(Built.graph.edges["b"]) = {"a"}) =>
           /\ returned.results["a"].value = Dec(19130)
           /\ returned.results["b"].value = Dec(38260)

\* a was rounded to 19.13 and its dependent b computed 38.26 from it
C6_Witness ==
    /\ pc = "returned"
    /\ {"a", "b"} \subseteq DOMAIN returned.results
    /\ FormulaOf("a").rounding = HalfUp2
    /\ FormulaOf("b").rounding = NoRounding
    /\ returned.results["a"].value = Dec(19130)
    /\ returned.results["b"].value = Dec(38260)

\* C7: a formula list in which two formulas share an id is rejected with
\* DuplicateFormula and neither definition is evaluated (stated for the lists
\* that no other graph error rejects first).
C7_DuplicatesRejected ==
    (HasDuplicateIds /\ OrderOk) =>
        /\ evaluated = <<>>
        /\ Finished => returned.errors = <<"DuplicateFormula">>

\* the policy in force for a formula: its own onError, else the engine's
\* defaultErrorBehavior, else the documented default THROW
EffectivePolicy(f) ==
    IF f.onError.type # Unset THEN f.onError.type
    ELSE IF config.defaultErrorBehavior.type # Unset THEN config.defaultErrorBehavior.type
    ELSE "THROW"

\* C8: when a formula fails and its effective policy is THROW, evaluateAll
\* raises the error instead of returning a result set.
C8_ThrowPolicyRaises ==
    (pc = "returned") =>
        \A id \in DOMAIN returned.results :
            ~returned.results[id].success => EffectivePolicy(FormulaOf(id)) # "THROW"

\* C9: a failure on a formula whose policy is NULL, ZERO, DEFAULT or SKIP
\* does not abort the batch: only a THROW policy makes evaluateAll raise, and
\* a batch whose order was computed and that did not raise returns an entry
\* for every formula of the evaluation order, all of them evaluated.
C9_NonThrowPoliciesDoNotAbort ==
    /\ pc = "thrown" =>
          FormulaOf(evaluated[Len(evaluated)]).onError.type = "THROW"
    /\ (pc = "returned" /\ OrderOk) =>
          /\ evaluated = evaluationOrder
          /\ returned.evaluationOrder = evaluationOrder
          /\ DOMAIN returned.results = Range(evaluationOrder)

\* a failed under a non-THROW policy and its dependents b and c have entries
C9_Witness ==
    /\ pc = "returned"
    /\ DOMAIN returned.results = {"a", "b", "c"}
    /\ ~returned.results["a"].success
    /\ FormulaOf("a").onError.type \in {"NULL", "ZERO", "DEFAULT", "SKIP"}
    /\ Range(Built.graph.edges["b"]) = {"a"}
    /\ Range(Built.graph.edges["c"]) = {"b"}

\* the value the claim expects a failed formula to leave, by policy
ClaimedSubstitute(f) ==
    CASE f.onError.type = "NULL" -> Null
      [] f.onError.type = "ZERO" -> Dec(0)
      [] f.onError.type = "DEFAULT" -> Coalesce(f.defaultValue, Null)

\* the same, with the policy's own defaultValue taking precedence
AmendedSubstitute(f) ==
    CASE f.onError.type = "NULL" -> Null
      [] f.onError.type = "ZERO" -> Dec(0)
      [] f.onError.type = "DEFAULT" ->
            Coalesce(Coalesce(f.onError.defaultValue, f.defaultValue), Null)

\* a = $x / $y fails under ZERO; b = $a * 2 is then computed from Decimal 0
ZeroExample ==
    (/\ pc = "returned"
     /\ {"a", "b"} \subseteq DOMAIN returned.results
     /\ FormulaOf("a").expression = "$x / $y"
     /\ FormulaOf("a").onError.type = "ZERO"
     /\ Range(Built.graph.edges["b"]) = {"a"}) =>
        /\ returned.results["a"].value = Dec(0)
        /\ returned.results["b"].success
        /\ returned.results["b"].value = Dec(0)

C11_SkipLeavesIdAbsent ==
    /\ \A id \in DOMAIN results :
          (~results[id].success /\ FormulaOf(id).onError.type = "SKIP") =>
              id \notin DOMAIN working
    /\ (/\ {"a", "b"} \subseteq DOMAIN results
        /\ ~results["a"].success
        /\ FormulaOf("a").onError.type = "SKIP"
        /\ FormulaOf("b").expression = "$a * 2"
        /\ config.strictMode) =>
           results["b"].error = "UndefinedVariable"

\* the ids whose formula failed, in the order they were evaluated
FailedIds(order, res) == SelectSeq(order, LAMBDA id : ~res[id].success)

\* C12: a failure absorbed by a non-THROW policy is still reported: the result
\* set of a batch whose order was computed has success = false and the
\* original error of every failed formula in errors, and success is true
\* exactly when no formula failed; a = $x / $y with y = 0 under ZERO gives
\* a = 0, success = false and DivisionByZero in errors.
C12_AbsorbedFailureReported ==
    (pc = "returned" /\ OrderOk) =>
        LET res == returned.results
            failed == FailedIds(returned.evaluationOrder, res)
        IN  /\ returned.success = (\A id \in DOMAIN res : res[id].success)
            /\ returned.errors = [i \in 1..Len(failed) |-> res[failed[i]].error]
            /\ ("a" \in DOMAIN res /\ FormulaOf("a").expression = "$x / $y") =>
                  /\ ~returned.success
                  /\ "DivisionByZero" \in Range(returned.errors)

\* a = $x / $y failed under ZERO, b = $a * 2 succeeded on the substitute 0,
\* and the result set reports success = false with the DivisionByZero error
C12_Witness ==
    /\ pc = "returned"
    /\ DOMAIN returned.results = {"a", "b"}
    /\ FormulaOf("a").onError.type = "ZERO"
    /\ returned.results["a"].value = Dec(0)
    /\ returned.results["b"].success
    /\ returned.results["b"].value = Dec(0)
    /\ returned.success = FALSE
    /\ returned.errors = <<"DivisionByZero">>

\* C13: for every configuration (autoConvertFloats = false included) the
\* caller's context.variables has the same keys and values when evaluateAll
\* returns as before the call; results are written only to the private
\* working copy.
C13_CallerContextUnchanged == (pc = "returned") => context = CallerVariables

----------------------------------------------------------------------------
(* Properties of the engine's entry points and caches, checked under       *)
(* SpecEngine.                                                             *)

\* C14: engine.evaluate never raises: every error (syntax error, evaluation
\* error, MaxExpressionLength) comes back in the result envelope with
\* success = false and value = Null.
C14_EvaluateNeverRaises ==
    (lastCall.op = "evaluate") =>
        /\ ~lastCall.threw
        /\ (lastCall.error # "none") => (~lastCall.success /\ lastCall.value = Null)

\* C15: with caching enabled the AST cache never holds more than maxCacheSize
\* entries, for every maxCacheSize (0 and 1 included).
C15_AstCacheBounded ==
    config.enableCache => Len(astCache) <= config.maxCacheSize

\* the least k with 10 * k >= n, i.e. ceil(0.1 * n)
TenPercent(n) == CHOOSE k \in 0..n : 10 * k >= n /\ (k = 0 \/ 10 * (k - 1) < n)

\* a step that is a parse call ending in a cache miss that was parsed
ParseMissStep ==
    /\ calls' = calls + 1
    /\ lastCall'.op = "parse"
    /\ ~lastCall'.threw
    /\ ~lastCall'.hit
    /\ config.enableCache

\* a step that is a parse call answered from the cache
ParseHitStep ==
    /\ calls' = calls + 1
    /\ lastCall'.op = "parse"
    /\ lastCall'.hit

C17_DependencyCacheInLockstep ==
    config.enableCache =>
        /\ Range(CacheKeys(dependencyCache)) \subseteq Range(CacheKeys(astCache))
        /\ Len(dependencyCache) <= config.maxCacheSize

\* C18: no expression longer than maxExpressionLength is handed to a Parser:
\* on every entry point the guard fires first and the call reports
\* MaxExpressionLength.
C18_LengthGuardFirst ==
    /\ \A i \in 1..Len(lastCall.parsed) :
          Len(lastCall.parsed[i]) <= config.maxExpressionLength
    /\ (lastCall.op \in {"parse", "extractDependencies", "evaluate"}
        /\ Len(lastCall.expression) > config.maxExpressionLength) =>
           lastCall.error = "MaxExpressionLength"

----------------------------------------------------------------------------
(* Properties of the function library, checked under SpecFunctions.        *)

\* the FunctionCall node of the expression last evaluated
CalledNode == parserParse(lastCall.expression).ast

\* C19: once a definition is registered, a call by its upper-cased name is
\* checked against the definition's minArgs and maxArgs and dispatched to its
\* implementation, whatever the name, built-ins SUM, FILTER and MAP included.
C19_RegisteredFunctionDispatched ==
    (/\ lastCall.op = "evaluate"
     /\ CalledNode.name \in DOMAIN functions
     /\ functions[CalledNode.name] \in CustomDefinitions) =>
        LET fn == functions[CalledNode.name]
            argc == Len(CalledNode.arguments)
        IN  IF argc < fn.minArgs \/ argc > fn.maxArgs
            THEN ~lastCall.success /\ lastCall.error = "ArgumentCount"
            ELSE /\ lastCall.success
                 /\ lastCall.value = IF fn.implementation = "double"
                                     THEN Dec(20 * Unit) ELSE Dec(42 * Unit)

----------------------------------------------------------------------------
(* Properties of the Lexer and the Parser, checked under SpecParse.        *)

\* texts that the object-literal syntax { key: expr, ... } derives, alone or
\* as an argument
ObjectLiteralTexts ==
    {<<"{", "}">>, <<"{", "k", ":", "1", "}">>, LookupExample}

\* C20: an object literal is accepted by the Lexer and by the Parser, so
\* that it can be evaluated, for instance as the criteria of LOOKUP.
C20_ObjectLiteralAccepted ==
    (outcome.stage \in {"tokenized", "parsed"} /\ lexerInput \in ObjectLiteralTexts) =>
        outcome.ok

\* the names of the $-variables written in a text: its VARIABLE tokens,
\* except those that stand right after a '.', which are property names
DollarVariables(input) ==
    LET tokens == tokenize(input).tokens
    IN  {Str(tokens[i].value) :
            i \in {j \in 1..Len(tokens) :
                      /\ tokens[j].type = "VARIABLE"
                      /\ (j = 1 \/ tokens[j - 1].type # "DOT")}}

----------------------------------------------------------------------------
(* Properties of validate, checked under SpecValidate.                     *)

Validated == pc = "validated"

HasSyntaxError(f) == ~parserParse(f.expression).ok

\* the formulas whose dependencies can be read: an explicit list, or an
\* expression that parses
Readable(fs) == SelectSeq(fs, LAMBDA f : f.dependencies.given \/ ~HasSyntaxError(f))

Reported(error, at) ==
    \E k \in 1..Len(returned.errors) : returned.errors[k] = ErrorAt(error, at)

\* the dependencies of a formula: its explicit list, or the $-variables
\* written in its expression
DependenciesOf(f) ==
    IF f.dependencies.given THEN Range(f.dependencies.list)
    ELSE DollarVariables(Chars(f.expression))

\* build did not throw: every expression it had to read parses
GraphBuilt == Validated /\ Readable(formulas) = formulas

\* C21: validate returns without raising and without evaluating a formula;
\* its errors hold an entry for every syntax error, for every repeated id
\* and for the dependency cycle, also when another formula has a syntax
\* error; valid is true iff errors is empty.
C21_ValidateReportsEveryError ==
    Validated =>
        /\ ~lastCall.threw
        /\ evaluated = <<>>
        /\ results = <<>>
        /\ \A i \in 1..Len(formulas) :
              /\ HasSyntaxError(formulas[i]) =>
                    Reported(parserParse(formulas[i].expression).error,
                             formulas[i].expression)
              /\ (\E j \in 1..(i - 1) : formulas[j].id = formulas[i].id) =>
                    Reported("DuplicateFormula", formulas[i].id)
        /\ HasCycle(build(Readable(formulas)).graph) =>
              \E k \in 1..Len(returned.errors) :
                  returned.errors[k].error = "CircularDependency"
        /\ returned.success <=> (returned.errors = <<>>)

----------------------------------------------------------------------------
(* Properties of DependencyExtractor, checked under SpecExtract.           *)

Extracted == outcome.stage = "extracted" /\ outcome.ok

C22_GraphOfFormulas ==
    GraphBuilt =>
        /\ Range(nodes) = FormulaIds(formulas)
        /\ \A i, j \in 1..Len(nodes) : nodes[i] = nodes[j] => i = j
        /\ DOMAIN edges \subseteq FormulaIds(formulas)
        /\ \A f \in Ids \cup {"zz", "x", "y"}, d \in Ids \cup {"zz", "x", "y"} :
              IsEdge(G, f, d) <=>
                  /\ d \in FormulaIds(formulas)
                  /\ \E i \in 1..Len(formulas) :
                        formulas[i].id = f /\ d \in DependenciesOf(formulas[i])
        /\ \A f \in DOMAIN edges : Range(edges[f]) \subseteq FormulaIds(formulas)

C22_Witness ==
    /\ GraphBuilt
    /\ Len(formulas) = 3
    /\ formulas[1].id = "a" /\ formulas[1].dependencies.list = <<"b", "c">>
    /\ formulas[2].id = "c" /\ formulas[2].dependencies.list = <<"zz">>
    /\ formulas[3].id = "b" /\ ~formulas[3].dependencies.given
    /\ nodes = <<"a", "c", "b">>
    /\ IsEdge(G, "a", "b") /\ IsEdge(G, "a", "c") /\ IsEdge(G, "b", "a")
    /\ ~IsEdge(G, "c", "b")

----------------------------------------------------------------------------
(* Properties of the cache counters, checked under SpecEngine.             *)

ParseStep == calls' = calls + 1 /\ lastCall'.op = "parse" /\ config.enableCache

Cached(expression) == expression \in Range(CacheKeys(astCache))

HitCounted == cacheHits' = cacheHits + 1 /\ cacheMisses' = cacheMisses
MissCounted == cacheMisses' = cacheMisses + 1 /\ cacheHits' = cacheHits

\* the second of two parse calls on the same expression, on a fresh engine
SecondParseStep ==
    /\ ParseStep
    /\ calls = 1
    /\ lastCall.op = "parse"
    /\ lastCall'.expression = lastCall.expression

AfterClearCache ==
    (lastCall'.op = "clearCache") =>
        Len(astCache') = 0 /\ cacheHits' = 0 /\ cacheMisses' = 0

\* C23 as stated: with caching enabled a parse(e) call is counted as a hit
\* exactly when e is in the AST cache at the time of the call and as a miss
\* otherwise; the same expression parsed twice on a fresh engine gives
\* hits = 1, misses = 1, size = 1; right after clearCache all three are 0.
C23_HitsAndMissesAsClaimed ==
    [][ /\ ParseStep =>
              IF Cached(lastCall'.expression) THEN HitCounted ELSE MissCounted
        /\ SecondParseStep =>
              cacheHits' = 1 /\ cacheMisses' = 1 /\ Len(astCache') = 1
        /\ AfterClearCache ]_vars

\* C23 amended: a parse(e) call the length guard lets through is counted as
\* a hit exactly when e is in the AST cache and as a miss otherwise, and a
\* call the guard rejects is counted as neither; an expression that is within
\* the limit and parses, parsed twice on a fresh engine, gives hits = 1,
\* misses = 1, size = 1; right after clearCache all three are 0.
C23_HitsAndMissesAmended ==
    [][ /\ ParseStep =>
              IF Len(lastCall'.expression) > config.maxExpressionLength
              THEN cacheHits' = cacheHits /\ cacheMisses' = cacheMisses
              ELSE IF Cached(lastCall'.expression) THEN HitCounted ELSE MissCounted
        /\ (SecondParseStep /\ ~lastCall.threw) =>
              cacheHits' = 1 /\ cacheMisses' = 1 /\ Len(astCache') = 1
        /\ (SecondParseStep /\ lastCall.error \in {"SyntaxError", "UnexpectedToken"}) =>
              cacheHits' = 0 /\ cacheMisses' = 2 /\ Len(astCache') = 0
        /\ AfterClearCache ]_vars

C23_Witness ==
    /\ config.enableCache
    /\ calls = 2
    /\ lastCall.op = "parse" /\ lastCall.expression = "$a * 2" /\ lastCall.hit
    /\ cacheHits = 1 /\ cacheMisses = 1
    /\ CacheKeys(astCache) = <<"$a * 2">>

\* C24: whatever parse, extractDependencies, evaluate and clearCache calls
\* and evictions came before, a parse(e) call that returns hands back the
\* AST that a Parser builds from the text of e, which is what the first
\* parse(e) returned and what an engine with caching disabled returns.
C24_ParseIsIdempotent ==
    (lastCall.op = "parse" /\ ~lastCall.threw) =>
        /\ parse(Chars(lastCall.expression)).ok
        /\ lastCall.ast = parse(Chars(lastCall.expression)).ast
        /\ \A i \in 1..Len(astCache) :
              astCache[i].value = parse(Chars(astCache[i].key)).ast

\* a hit after an eviction, on the entry that is not the oldest
C24_Witness ==
    /\ config.maxCacheSize = 2
    /\ calls = 4
    /\ lastCall.op = "parse" /\ lastCall.hit
    /\ lastCall.expression = "$b * 2"
    /\ lastCall.ast = BinaryOperation("*", VariableReference("$", "b"), DecimalLiteral(2 * Unit))
    /\ CacheKeys(astCache) = <<"$a * 2", "$b * 2">>
    /\ cacheMisses = 3

\* C28: evaluate obtains the AST through the engine's AST cache: on an
\* expression that is cached the call is counted as a hit, and on one that
\* is not cached (and parses) the call inserts its AST into the cache.
C28_EvaluateUsesAstCache ==
    [][ (/\ calls' = calls + 1
         /\ lastCall'.op = "evaluate"
         /\ ~lastCall'.threw
         /\ config.enableCache) =>
            IF Cached(lastCall'.expression)
            THEN cacheHits' = cacheHits + 1 /\ astCache' = astCache
            ELSE parse(Chars(lastCall'.expression)).ok =>
                    /\ lastCall'.expression \in Range(CacheKeys(astCache'))
                    /\ cacheMisses' = cacheMisses + 1 ]_vars

----------------------------------------------------------------------------
(* Properties of the Evaluator, checked under SpecEvaluate.                *)

Evaluated(expression) == lastCall.op = "evaluate" /\ lastCall.expression = expression

\* C26: `a && b` does not evaluate b when a is falsy and `a || b` does not
\* when a is truthy: with $undef absent from the context, in strict mode as
\* in lenient mode, `false && $undef` returns false and `true || $undef`
\* returns true, with success and no error, and the node dispatcher has been
\* entered twice only: for the operation and for its left operand.
C26_LogicalShortCircuit ==
    /\ "undef" \notin DOMAIN context
    /\ Evaluated("false && $undef") =>
          /\ lastCall.success /\ ~lastCall.threw /\ lastCall.error = "none"
          /\ lastCall.value = Bool(FALSE)
          /\ lastCall.recursionDepth = 2
    /\ Evaluated("true || $undef") =>
          /\ lastCall.success /\ ~lastCall.threw /\ lastCall.error = "none"
          /\ lastCall.value = Bool(TRUE)
          /\ lastCall.recursionDepth = 2

C26_Witness ==
    /\ config.strictMode
    /\ Evaluated("false && $undef")
    /\ parse(Chars("false && $undef")).ast =
          BinaryOperation("&&", BooleanLiteral(FALSE), VariableReference("$", "undef"))
    /\ lastCall.success
    /\ lastCall.value = Bool(FALSE)

\* the nodes directly below a node
Children(node) ==
    CASE node.type = "ArrayLiteral" -> Range(node.elements)
      [] node.type = "FunctionCall" -> Range(node.arguments)
      [] node.type = "BinaryOperation" -> {node.left, node.right}
      [] node.type = "ConditionalExpression" ->
            {node.condition, node.consequent, node.alternate}
      [] node.type = "UnaryOperation" -> {node.operand}
      [] node.type = "MemberAccess" -> {node.object}
      [] node.type = "IndexAccess" -> {node.object, node.index}
      [] OTHER -> {}

\* the nesting depth of an AST: 1 for a leaf
RECURSIVE NestingDepth(_)
NestingDepth(node) ==
    LET below == {NestingDepth(child) : child \in Children(node)}
    IN  1 + (IF below = {} THEN 0 ELSE CHOOSE d \in below : \A e \in below : e <= d)

\* C27: recursionDepth is the current nesting depth of the node dispatcher
\* (0 again when the evaluation has returned), so evaluate fails with
\* MaxRecursion exactly when the nesting depth of the AST exceeds
\* maxRecursionDepth; the flat array `[1, 2, 3]` (four nodes, two deep)
\* evaluates under maxRecursionDepth 3.
C27_RecursionDepthIsNesting ==
    (lastCall.op = "evaluate" /\ parse(Chars(lastCall.expression)).ok) =>
        /\ (lastCall.error = "MaxRecursion") <=>
              (NestingDepth(parse(Chars(lastCall.expression)).ast)
                  > config.maxRecursionDepth)
        /\ lastCall.success => lastCall.recursionDepth = 0
        /\ (Evaluated("[1, 2, 3]") /\ config.maxRecursionDepth = 3) => lastCall.success

\* what the same engine returns for another expression in the same context
ValueOf(expression) ==
    evaluatorEvaluate(expression,
                      normalizeContext(context, config.autoConvertFloats).variables,
                      EvaluatorOf(config, functions))

\* C29: IF(c, t, f) returns what c ? t : f returns, whatever kind of value
\* c is (Decimal 0, null, the empty string and the empty array included),
\* when both evaluate without error.
C29_IfAsTernary ==
    \A pair \in ConditionalPairs :
        (Evaluated(pair[1]) /\ lastCall.success /\ ValueOf(pair[2]).success) =>
            lastCall.value = ValueOf(pair[2]).value

----------------------------------------------------------------------------
(* The order of the formula list, checked under Spec.                      *)

\* the formula list with its entries rearranged by p
Permuted(fs, p) == [i \in 1..Len(fs) |-> fs[p[i]]]

\* the value and the success flag returned for each formula, or that the
\* call raised
ResultsOf(r) ==
    [kind |-> r.kind,
     results |-> [id \in DOMAIN r.results |->
                    [value |-> r.results[id].value,
                     success |-> r.results[id].success]]]

NoExplicitDependencies == \A i \in 1..Len(formulas) : ~formulas[i].dependencies.given

\* no dependency cycle among the formulas (an expression with a syntax error
\* stops the graph from being built, and is no cycle)
Acyclic == getEvaluationOrder(formulas).error # "CircularDependency"

\* a list of the claim whose expressions all parse
Rearrangeable ==
    /\ ~HasDuplicateIds
    /\ NoExplicitDependencies
    /\ \A i \in 1..Len(formulas) : parse(Chars(formulas[i].expression)).ok
    /\ OrderOk

\* C30: for an acyclic formula list with distinct ids and no explicit
\* dependency lists, the value and the success flag evaluateAll returns for
\* each formula are the same for every permutation of the list.
C30_ResultsIndependentOfListOrder ==
    (Finished /\ ~HasDuplicateIds /\ NoExplicitDependencies /\ Acyclic) =>
        \A p \in Permutations(1..Len(formulas)) :
            ResultsOf(evaluateAll(Permuted(formulas, p), CallerVariables, config,
                                  functions))
                = ResultsOf(returned)

\* c listed first, b last: b needs a and c needs b, and all three succeed
C30_Witness ==
    /\ pc = "returned"
    /\ Rearrangeable
    /\ Len(formulas) = 3
    /\ formulas[1].id = "c" /\ formulas[2].id = "a" /\ formulas[3].id = "b"
    /\ returned.evaluationOrder = <<"a", "b", "c">>
    /\ \A id \in Ids : returned.results[id].success
    /\ returned.results["c"].value # returned.results["a"].value

====
